---------------------------- MODULE Spec2Model ----------------------------
(***************************************************************************)
(* A model of the rendering engine of go-qrcode's standard writer:         *)
(*   - the rectangle decomposition of a raster (greedy meshing and the     *)
(*     four-phase version it replaced),                                    *)
(*   - the matrix pass of the SVG encoders (canvas size, module            *)
(*     rectangles, neighbour mask, logo safe zone),                        *)
(*   - the two recorders that turn drawing commands into SVG elements.     *)
(* Each part has its own specification over the shared variables.          *)
(***************************************************************************)
EXTENDS Integers, Sequences, FiniteSets, TLC

(***************************************************************************)
(* Bounds of the model.                                                    *)
(***************************************************************************)
MaxW == 3
MaxH == 3
MaxPaints == 1
MaxCols == 2
MaxRows == 2
MaxBorder == 2
MaxBlock == 2
MaxCmds == 3
MaxSrcW == 2
MaxSrcH == 2
MaxSrcMin == 1
MaxCanvasW == 3
MaxCanvasH == 3
MaxEdge == 3
MaxOrigin == 2
MaxApplied == 2
MaxWidth == 1
MaxModules == 2
MaxPixels == 6

(***************************************************************************)
(* Colours.  A pixel is an index into Palette; getPixel turns it into the  *)
(* four 8-bit components the code compares.                                *)
(***************************************************************************)
Palette ==
  << [r |-> 0,   g |-> 0,   b |-> 0,   a |-> 0],
     [r |-> 255, g |-> 255, b |-> 255, a |-> 255],
     [r |-> 0,   g |-> 0,   b |-> 0,   a |-> 255],
     [r |-> 0,   g |-> 0,   b |-> 0,   a |-> 128] >>

ColourIds == 1 .. Len(Palette)

\* A fresh raster is transparent (image.NewRGBA) or filled with one colour.
Backdrops == {1, 3}

VARIABLES
  imgW, imgH,     \* bounds.Dx(), bounds.Dy() of the raster
  img,            \* the raster: pixel index -> colour id, row-major
  paints,         \* number of rectangles drawn onto the raster so far
  phase,          \* "paint" | "greedy" | "both"
  rects,          \* result of the greedy optimizeRectangles
  marks,          \* how often markVisited wrote each pixel
  oldRects,       \* result of the four-phase optimizeRectangles
  orig,           \* optimizeRectanglesOriginal: "idle" | "start" | "loop" | "returned"
  allRects,       \* its allRects
  merged,         \* its loop flag
  npasses         \* passes of its merge loop begun so far

rectVars == << imgW, imgH, img, paints, phase, rects, marks, oldRects,
               orig, allRects, merged, npasses >>

VARIABLES
  mat,            \* the QR matrix: width, height, set and type of each cell
  opts,           \* the resolved outputImageOptions
  svgOut,         \* what svgEncoder.EncodeMatrix wrote
  svgoOut         \* what SvgoEncoder.EncodeMatrix wrote

matrixVars == << mat, opts, svgOut, svgoOut >>

VARIABLES
  pr,             \* the svgPathRecorder
  sr,             \* the svgoShapeRecorder, its canvas included
  ncmds,          \* number of drawing commands issued
  lastCmd,        \* the command issued last
  svgPath         \* what toSVGPath returned

recorderVars == << pr, sr, ncmds, lastCmd, svgPath >>

VARIABLES
  src,            \* the image handed to imgkit: bounds and pixels
  threshold,      \* the threshold handed to Binaryzation
  dst,            \* the image imgkit returned
  kitOp           \* the imgkit function that ran last

kitVars == << src, threshold, dst, kitOp >>

VARIABLES
  gradient,       \* the LinearGradient and canvas handed to writeSVGGradient
  gradientDef,    \* the linearGradient element it wrote
  svgoDef         \* the gradient writeSvgoGradient handed to the canvas

gradientVars == << gradient, gradientDef, svgoDef >>

VARIABLES
  dctx,           \* the DrawContext handed to a shape: x, y, w, h
  shapeOut        \* what the circle shapes emitted for it

shapeVars == << dctx, shapeOut >>

VARIABLES
  oo,             \* the outputImageOptions under construction
  widths,         \* the arguments of the WithBorderWidth applied last
  napplied,       \* number of WithBorderWidth options applied
  lastOpt,        \* the option applied last, with its argument
  nextra,         \* number of other options applied
  optErr,         \* the error the application of the options handed back
  printed         \* the message written to standard output last

optionVars == << oo, widths, napplied, lastOpt, nextra, optErr, printed >>

VARIABLES
  job,            \* the render asked for: encoder and what is to be written
  sink,           \* the io.Writer: which of its writes fail
  sinkLog,        \* the writes the render attempted, with their outcome
  ret             \* what the render returned

sinkVars == << job, sink, sinkLog, ret >>

vars == << rectVars, matrixVars, recorderVars, kitVars, gradientVars,
           shapeVars, optionVars, sinkVars >>

(***************************************************************************)
(* Raster access.  Coordinates are taken relative to bounds.Min, as the     *)
(* code's index arithmetic does: x stands for x - bounds.Min.X and y for   *)
(* y - bounds.Min.Y.                                                       *)
(***************************************************************************)
getIndex(w, x, y) == y * w + x

getPixel(im, w, x, y) == Palette[im[getIndex(w, x, y)]]

\* A slip that compares the colour channels and forgets alpha.
SameColourNoAlpha(p, q) == ~(p.r # q.r \/ p.g # q.g \/ p.b # q.b)

SameColour(p, q) == ~(p.r # q.r \/ p.g # q.g \/ p.b # q.b \/ p.a # q.a)

\* A slip that drops the white-pixel rule of the background test.
IsBackgroundAlphaOnly(p) == p.a = 0

IsBackground(p) == p.a = 0 \/ (p.r = 255 /\ p.g = 255 /\ p.b = 255)

MkRect(x, y, rw, rh, c) ==
  [x |-> x, y |-> y, width |-> rw, height |-> rh,
   r |-> c.r, g |-> c.g, b |-> c.b, a |-> c.a]

(***************************************************************************)
(* Greedy meshing.                                                         *)
(***************************************************************************)
isVisited(mk, w, x, y) == mk[getIndex(w, x, y)] > 0

markVisited(mk, w, x, y, rw, rh) ==
  [i \in DOMAIN mk |->
     IF /\ i % w >= x /\ i % w < x + rw
        /\ i \div w >= y /\ i \div w < y + rh
     THEN mk[i] + 1 ELSE mk[i]]

\* A slip that never extends a run to the right.
ExpandRightNever(im, mk, w, x, y, c, rw) == rw

\* A slip that extends a run to the right over pixels already visited.
RECURSIVE ExpandRightOverVisited(_, _, _, _, _, _, _)
ExpandRightOverVisited(im, mk, w, x, y, c, rw) ==
  IF x + rw < w /\ SameColour(getPixel(im, w, x + rw, y), c)
  THEN ExpandRightOverVisited(im, mk, w, x, y, c, rw + 1)
  ELSE rw

RECURSIVE ExpandRight(_, _, _, _, _, _, _)
ExpandRight(im, mk, w, x, y, c, rw) ==
  IF x + rw < w
     /\ ~isVisited(mk, w, x + rw, y)
     /\ SameColour(getPixel(im, w, x + rw, y), c)
  THEN ExpandRight(im, mk, w, x, y, c, rw + 1)
  ELSE rw

matchRow(im, mk, w, x, yy, c, rw) ==
  \A k \in 0 .. rw - 1 :
     /\ ~isVisited(mk, w, x + k, yy)
     /\ SameColour(getPixel(im, w, x + k, yy), c)

\* A slip that never extends a run downwards.
ExpandDownNever(im, mk, w, h, x, y, c, rw, rh) == rh

RECURSIVE ExpandDown(_, _, _, _, _, _, _, _, _)
ExpandDown(im, mk, w, h, x, y, c, rw, rh) ==
  IF y + rh < h /\ matchRow(im, mk, w, x, y + rh, c, rw)
  THEN ExpandDown(im, mk, w, h, x, y, c, rw, rh + 1)
  ELSE rh

RECURSIVE GreedyScan(_, _, _, _, _, _)
GreedyScan(im, w, h, p, mk, rs) ==
  IF p >= w * h THEN [rects |-> rs, marks |-> mk]
  ELSE
    LET x == p % w
        y == p \div w
        c == getPixel(im, w, x, y)
    IN IF isVisited(mk, w, x, y) THEN GreedyScan(im, w, h, p + 1, mk, rs)
       ELSE IF IsBackground(c) THEN GreedyScan(im, w, h, p + 1, mk, rs)
       ELSE LET rw == ExpandRight(im, mk, w, x, y, c, 1)
                rh == ExpandDown(im, mk, w, h, x, y, c, rw, 1)
                rc == MkRect(x, y, rw, rh, c)
            IN GreedyScan(im, w, h, p + 1,
                          markVisited(mk, w, x, y, rw, rh), Append(rs, rc))

optimizeRectangles(im, w, h) ==
  GreedyScan(im, w, h, 0, [i \in 0 .. w * h - 1 |-> 0], << >>)

(***************************************************************************)
(* The four-phase decomposition that greedy meshing replaced: a 3x3 block  *)
(* pre-pass, a run-length pass, a sorted horizontal merge and a sorted     *)
(* vertical merge.                                                         *)
(***************************************************************************)
isUniform(im, vis, w, x, y, c) ==
  \A dy \in 0 .. 2 : \A dx \in 0 .. 2 :
     /\ ~vis[getIndex(w, x + dx, y + dy)]
     /\ SameColour(getPixel(im, w, x + dx, y + dy), c)

markBlock(vis, w, x, y) ==
  [i \in DOMAIN vis |->
     IF /\ i % w >= x /\ i % w < x + 3
        /\ i \div w >= y /\ i \div w < y + 3
     THEN TRUE ELSE vis[i]]

\* PHASE 1: x and y advance in steps of 3 while a whole block fits.
RECURSIVE Phase1(_, _, _, _, _, _, _)
Phase1(im, w, h, x, y, vis, rs) ==
  IF y > h - 3 THEN [rects |-> rs, visited |-> vis]
  ELSE IF x > w - 3 THEN Phase1(im, w, h, 0, y + 3, vis, rs)
  ELSE LET c == getPixel(im, w, x, y)
       IN IF IsBackground(c) THEN Phase1(im, w, h, x + 3, y, vis, rs)
          ELSE IF isUniform(im, vis, w, x, y, c)
               THEN Phase1(im, w, h, x + 3, y, markBlock(vis, w, x, y),
                           Append(rs, MkRect(x, y, 3, 3, c)))
               ELSE Phase1(im, w, h, x + 3, y, vis, rs)

RECURSIVE RunEnd(_, _, _, _, _, _)
RunEnd(im, vis, w, x, y, c) ==
  IF x < w
     /\ ~vis[getIndex(w, x, y)]
     /\ SameColour(getPixel(im, w, x, y), c)
  THEN RunEnd(im, vis, w, x + 1, y, c)
  ELSE x

\* PHASE 2: run-length encoding of what phase 1 left.
RECURSIVE Phase2(_, _, _, _, _, _, _)
Phase2(im, w, h, x, y, vis, rs) ==
  IF y >= h THEN rs
  ELSE IF x >= w THEN Phase2(im, w, h, 0, y + 1, vis, rs)
  ELSE IF vis[getIndex(w, x, y)] THEN Phase2(im, w, h, x + 1, y, vis, rs)
  ELSE LET c == getPixel(im, w, x, y)
       IN IF IsBackground(c) THEN Phase2(im, w, h, x + 1, y, vis, rs)
          ELSE LET e == RunEnd(im, vis, w, x + 1, y, c)
               IN Phase2(im, w, h, e, y, vis,
                         Append(rs, MkRect(x, y, e - x, 1, c)))

lessYX(p, q) == IF p.y # q.y THEN p.y < q.y ELSE p.x < q.x

lessXY(p, q) == IF p.x # q.x THEN p.x < q.x ELSE p.y < q.y

sameRGBA(p, q) == p.r = q.r /\ p.g = q.g /\ p.b = q.b /\ p.a = q.a

canMergeHorz(curr, next) ==
  /\ curr.y = next.y
  /\ curr.height = next.height
  /\ curr.x + curr.width = next.x
  /\ sameRGBA(curr, next)

\* A slip that merges vertically without comparing the widths.
canMergeVertAnyWidth(curr, next) ==
  /\ curr.x = next.x
  /\ curr.y + curr.height = next.y
  /\ sameRGBA(curr, next)

canMergeVert(curr, next) ==
  /\ curr.x = next.x
  /\ curr.width = next.width
  /\ curr.y + curr.height = next.y
  /\ sameRGBA(curr, next)

\* PHASE 3: one linear scan over the rectangles sorted by (y, x).
RECURSIVE mergeHorz(_, _, _, _)
mergeHorz(rs, i, curr, out) ==
  IF i > Len(rs) THEN Append(out, curr)
  ELSE IF canMergeHorz(curr, rs[i])
       THEN mergeHorz(rs, i + 1,
                      [curr EXCEPT !.width = curr.width + rs[i].width], out)
       ELSE mergeHorz(rs, i + 1, rs[i], Append(out, curr))

\* PHASE 4: one linear scan over the rectangles sorted by (x, y).
RECURSIVE mergeVert(_, _, _, _)
mergeVert(rs, i, curr, out) ==
  IF i > Len(rs) THEN Append(out, curr)
  ELSE IF canMergeVert(curr, rs[i])
       THEN mergeVert(rs, i + 1,
                      [curr EXCEPT !.height = curr.height + rs[i].height], out)
       ELSE mergeVert(rs, i + 1, rs[i], Append(out, curr))

oldOptimizeRectangles(im, w, h) ==
  LET p1 == Phase1(im, w, h, 0, 0, [i \in 0 .. w * h - 1 |-> FALSE], << >>)
      p2 == Phase2(im, w, h, 0, 0, p1.visited, p1.rects)
  IN IF Len(p2) = 0 THEN p2
     ELSE LET s3 == SortSeq(p2, lessYX)
              mergedHorz == mergeHorz(s3, 2, s3[1], << >>)
              s4 == SortSeq(mergedHorz, lessXY)
          IN mergeVert(s4, 2, s4[1], << >>)

(***************************************************************************)
(* The raster under decomposition.                                         *)
(***************************************************************************)
RectInit ==
  /\ imgW \in 1 .. MaxW
  /\ imgH \in 1 .. MaxH
  /\ \E c \in Backdrops : img = [i \in 0 .. imgW * imgH - 1 |-> c]
  /\ paints = 0
  /\ phase = "paint"
  /\ rects = << >>
  /\ marks = [i \in 0 .. imgW * imgH - 1 |-> 0]
  /\ oldRects = << >>
  /\ orig = "idle" /\ allRects = << >> /\ merged = FALSE /\ npasses = 0
  /\ mat = << >> /\ opts = << >>
  /\ svgOut = [done |-> FALSE] /\ svgoOut = [done |-> FALSE]
  /\ pr = << >> /\ sr = << >> /\ ncmds = 0 /\ lastCmd = "idle"
  /\ svgPath = << >>
  /\ src = << >> /\ threshold = 0 /\ dst = << >> /\ kitOp = "idle"
  /\ gradient = [width |-> 0] /\ gradientDef = [done |-> FALSE]
  /\ svgoDef = [done |-> FALSE]
  /\ dctx = [w |-> 0] /\ shapeOut = [done |-> FALSE]
  /\ oo = [borderWidths |-> << >>] /\ widths = << >> /\ napplied = 0
  /\ lastOpt = [name |-> "none"] /\ nextra = 0 /\ optErr = "nil"
  /\ printed = ""
  /\ job = << >> /\ sink = << >> /\ sinkLog = << >> /\ ret = [done |-> FALSE]

DrawRect(x, y, w, h, c) ==
  /\ phase = "paint"
  /\ paints < MaxPaints
  /\ x + w <= imgW
  /\ y + h <= imgH
  /\ img' = [i \in DOMAIN img |->
               IF /\ i % imgW >= x /\ i % imgW < x + w
                  /\ i \div imgW >= y /\ i \div imgW < y + h
               THEN c ELSE img[i]]
  /\ paints' = paints + 1
  /\ UNCHANGED << imgW, imgH, phase, rects, marks, oldRects >>
  /\ UNCHANGED << orig, allRects, merged, npasses >>
  /\ UNCHANGED << matrixVars, recorderVars, kitVars, gradientVars,
                  shapeVars, optionVars, sinkVars >>

RunGreedy ==
  /\ phase = "paint"
  /\ LET res == optimizeRectangles(img, imgW, imgH)
     IN /\ rects' = res.rects
        /\ marks' = res.marks
  /\ phase' = "greedy"
  /\ UNCHANGED << imgW, imgH, img, paints, oldRects >>
  /\ UNCHANGED << orig, allRects, merged, npasses >>
  /\ UNCHANGED << matrixVars, recorderVars, kitVars, gradientVars,
                  shapeVars, optionVars, sinkVars >>

RunFourPhase ==
  /\ phase = "greedy"
  /\ oldRects' = oldOptimizeRectangles(img, imgW, imgH)
  /\ phase' = "both"
  /\ UNCHANGED << imgW, imgH, img, paints, rects, marks >>
  /\ UNCHANGED << orig, allRects, merged, npasses >>
  /\ UNCHANGED << matrixVars, recorderVars, kitVars, gradientVars,
                  shapeVars, optionVars, sinkVars >>

RectNext ==
  \/ \E x \in 0 .. MaxW - 1, y \in 0 .. MaxH - 1,
        w \in 1 .. MaxW, h \in 1 .. MaxH, c \in ColourIds :
        DrawRect(x, y, w, h, c)
  \/ RunGreedy
  \/ RunFourPhase


SpecRect == RectInit /\ [][RectNext]_vars

(***************************************************************************)
(* The original decomposition: one rectangle of height 1 per horizontal    *)
(* run, then passes of pairwise merging, repeated while a pass merged a    *)
(* pair.                                                                   *)
(***************************************************************************)
min(a, b) == IF a < b THEN a ELSE b

RECURSIVE runEnd(_, _, _, _, _)
runEnd(im, w, x, y, c) ==
  IF x < w /\ SameColour(getPixel(im, w, x, y), c)
  THEN runEnd(im, w, x + 1, y, c)
  ELSE x

RECURSIVE horizontalRuns(_, _, _, _, _, _)
horizontalRuns(im, w, h, x, y, rs) ==
  IF y >= h THEN rs
  ELSE IF x >= w THEN horizontalRuns(im, w, h, 0, y + 1, rs)
  ELSE LET c == getPixel(im, w, x, y)
       IN IF IsBackground(c) THEN horizontalRuns(im, w, h, x + 1, y, rs)
          ELSE LET e == runEnd(im, w, x, y, c)
               IN horizontalRuns(im, w, h, e, y,
                                 Append(rs, MkRect(x, y, e - x, 1, c)))

differentColour(rect1, rect2) ==
  rect1.r # rect2.r \/ rect1.g # rect2.g \/ rect1.b # rect2.b
     \/ rect1.a # rect2.a

sideBySide(rect1, rect2) ==
  /\ rect1.y = rect2.y /\ rect1.height = rect2.height
  /\ \/ rect1.x + rect1.width = rect2.x
     \/ rect2.x + rect2.width = rect1.x

\* A slip that stacks two rectangles whatever their widths.
stackedAnyWidth(rect1, rect2) ==
  /\ rect1.x = rect2.x
  /\ \/ rect1.y + rect1.height = rect2.y
     \/ rect2.y + rect2.height = rect1.y

stacked(rect1, rect2) ==
  /\ rect1.x = rect2.x /\ rect1.width = rect2.width
  /\ \/ rect1.y + rect1.height = rect2.y
     \/ rect2.y + rect2.height = rect1.y

mergePair(rect1, rect2) ==
  IF sideBySide(rect1, rect2)
  THEN [rect1 EXCEPT !.x = min(rect1.x, rect2.x),
                     !.width = rect1.width + rect2.width]
  ELSE [rect1 EXCEPT !.y = min(rect1.y, rect2.y),
                     !.height = rect1.height + rect2.height]

\* The inner loop: the first j from the given one on that is unused, has
\* rect1's colour and lies side by side with it or stacked on it; 0 if none.
RECURSIVE partner(_, _, _, _)
partner(all, used, rect1, j) ==
  IF j > Len(all) THEN 0
  ELSE IF j \in used THEN partner(all, used, rect1, j + 1)
  ELSE IF differentColour(rect1, all[j]) THEN partner(all, used, rect1, j + 1)
  ELSE IF sideBySide(rect1, all[j]) \/ stacked(rect1, all[j]) THEN j
  ELSE partner(all, used, rect1, j + 1)

\* One pass of the outer loop from index i on.
RECURSIVE mergePass(_, _, _, _, _)
mergePass(all, i, used, newRects, mergedAny) ==
  IF i > Len(all) THEN [rects |-> newRects, merged |-> mergedAny]
  ELSE IF i \in used THEN mergePass(all, i + 1, used, newRects, mergedAny)
  ELSE LET j == partner(all, used, all[i], i + 1)
       IN IF j = 0
          THEN mergePass(all, i + 1, used, Append(newRects, all[i]), mergedAny)
          ELSE mergePass(all, i + 1, used \cup {i, j},
                         Append(newRects, mergePair(all[i], all[j])), TRUE)

\* The colours of the rasters handed to the original decomposition: opaque
\* white, opaque black and half-transparent black.
RasterColours == {2, 3, 4}

\* Before a raster is handed over.
RasterInit ==
  /\ imgW = 0 /\ imgH = 0 /\ img = << >> /\ paints = 0 /\ phase = "idle"
  /\ rects = << >> /\ marks = << >> /\ oldRects = << >>
  /\ orig = "idle" /\ allRects = << >> /\ merged = FALSE /\ npasses = 0
  /\ mat = << >> /\ opts = << >>
  /\ svgOut = [done |-> FALSE] /\ svgoOut = [done |-> FALSE]
  /\ pr = << >> /\ sr = << >> /\ ncmds = 0 /\ lastCmd = "idle"
  /\ svgPath = << >>
  /\ src = << >> /\ threshold = 0 /\ dst = << >> /\ kitOp = "idle"
  /\ gradient = [width |-> 0] /\ gradientDef = [done |-> FALSE]
  /\ svgoDef = [done |-> FALSE]
  /\ dctx = [w |-> 0] /\ shapeOut = [done |-> FALSE]
  /\ oo = [borderWidths |-> << >>] /\ widths = << >> /\ napplied = 0
  /\ lastOpt = [name |-> "none"] /\ nextra = 0 /\ optErr = "nil"
  /\ printed = ""
  /\ job = << >> /\ sink = << >> /\ sinkLog = << >> /\ ret = [done |-> FALSE]

\* A raster of w by h pixels is handed to both decompositions.
Receive(w, h, im) ==
  /\ orig = "idle"
  /\ imgW' = w
  /\ imgH' = h
  /\ img' = im
  /\ phase' = "paint"
  /\ marks' = [i \in 0 .. w * h - 1 |-> 0]
  /\ orig' = "start"
  /\ UNCHANGED << paints, rects, oldRects, allRects, merged, npasses >>
  /\ UNCHANGED << matrixVars, recorderVars, kitVars, gradientVars,
                  shapeVars, optionVars, sinkVars >>

\* The first pass, up to the head of the merge loop.
FirstPass ==
  /\ orig = "start"
  /\ allRects' = horizontalRuns(img, imgW, imgH, 0, 0, << >>)
  /\ merged' = TRUE
  /\ orig' = "loop"
  /\ UNCHANGED << imgW, imgH, img, paints, phase, rects, marks, oldRects >>
  /\ UNCHANGED npasses
  /\ UNCHANGED << matrixVars, recorderVars, kitVars, gradientVars,
                  shapeVars, optionVars, sinkVars >>

\* One iteration of "for merged", up to the next test of the flag.
MergePass ==
  /\ orig = "loop"
  /\ merged
  /\ LET res == mergePass(allRects, 1, {}, << >>, FALSE)
     IN /\ allRects' = res.rects
        /\ merged' = res.merged
        /\ orig' = IF res.merged THEN "loop" ELSE "returned"
  /\ npasses' = npasses + 1
  /\ UNCHANGED << imgW, imgH, img, paints, phase, rects, marks, oldRects >>
  /\ UNCHANGED << matrixVars, recorderVars, kitVars, gradientVars,
                  shapeVars, optionVars, sinkVars >>

RasterNext ==
  \/ \E w, h \in 1 .. MaxPixels :
        /\ w * h <= MaxPixels
        /\ \E im \in [0 .. w * h - 1 -> RasterColours] : Receive(w, h, im)
  \/ RunGreedy
  \/ FirstPass
  \/ MergePass

SpecRaster == RasterInit /\ [][RasterNext]_vars

\* The loop is sequential code: a pass that can start does start.
SpecRasterLive == RasterInit /\ [][RasterNext]_vars /\ WF_vars(MergePass)

(***************************************************************************)
(* Properties of the rectangle decomposition.                              *)
(***************************************************************************)
Decomposed == phase \in {"greedy", "both"}

PixelIn(rc, i) ==
  /\ i % imgW >= rc.x /\ i % imgW < rc.x + rc.width
  /\ i \div imgW >= rc.y /\ i \div imgW < rc.y + rc.height

Covering(rs, i) == { k \in 1 .. Len(rs) : PixelIn(rs[k], i) }

PixelAt(i) == Palette[img[i]]

Elided(p) == p.a = 0 \/ (p.r = 255 /\ p.g = 255 /\ p.b = 255)

ColourOf(rc) == [r |-> rc.r, g |-> rc.g, b |-> rc.b, a |-> rc.a]

\* C1: the rectangles of the greedy decomposition cover exactly the pixels
\* that are not background (alpha 0, or RGB 255,255,255): every foreground
\* pixel is covered and no background pixel is.
C1_Coverage ==
  Decomposed =>
    \A i \in DOMAIN img : (Covering(rects, i) # {}) <=> ~Elided(PixelAt(i))

\* A decomposed raster with an opaque white pixel, a foreground pixel and
\* two or more rectangles.
C1_Witness ==
  /\ Decomposed
  /\ Len(rects) >= 2
  /\ \E i \in DOMAIN img : PixelAt(i).a # 0 /\ Elided(PixelAt(i))
  /\ \E i \in DOMAIN img : ~Elided(PixelAt(i))

\* C2: no two rectangles of one greedy decomposition overlap (every pixel
\* lies in at most one of them) and no pixel is marked visited twice.
C2_Disjoint ==
  Decomposed =>
    \A i \in DOMAIN img :
       /\ Cardinality(Covering(rects, i)) <= 1
       /\ marks[i] <= 1

\* A decomposition in which a later rectangle starts left of, and in a row
\* below, an earlier one of the same colour: its run to the right ends at a
\* visited pixel.
C2_Witness ==
  /\ Decomposed
  /\ \E j, k \in 1 .. Len(rects) :
        /\ j < k
        /\ ColourOf(rects[j]) = ColourOf(rects[k])
        /\ rects[k].x + rects[k].width = rects[j].x
        /\ rects[k].y > rects[j].y
        /\ rects[k].y < rects[j].y + rects[j].height

\* C3: every pixel covered by a rectangle of the greedy decomposition has
\* that rectangle's colour, alpha included, so painting the rectangles on a
\* blank canvas gives back the raster at every pixel that is not background.
C3_RoundTrip ==
  Decomposed =>
    \A k \in 1 .. Len(rects) : \A i \in DOMAIN img :
       PixelIn(rects[k], i) => PixelAt(i) = ColourOf(rects[k])

\* A decomposition with two rectangles that differ in alpha only.
C3_Witness ==
  /\ Decomposed
  /\ \E j, k \in 1 .. Len(rects) :
        /\ rects[j].a # rects[k].a
        /\ rects[j].r = rects[k].r
        /\ rects[j].g = rects[k].g
        /\ rects[j].b = rects[k].b

ColoursOver(rs, i) == { ColourOf(rs[k]) : k \in Covering(rs, i) }

\* C4: the four-phase decomposition and the greedy decomposition of the
\* same raster cover the same pixels with the same colours.
C4_SameCoverage ==
  phase = "both" =>
    \A i \in DOMAIN img : ColoursOver(rects, i) = ColoursOver(oldRects, i)

\* Both decompositions done, with rectangle lists that differ as sets.
C4_Witness ==
  /\ phase = "both"
  /\ Len(oldRects) >= 3
  /\ { rects[k] : k \in 1 .. Len(rects) }
       # { oldRects[k] : k \in 1 .. Len(oldRects) }

\* The pixel is inside a rectangle recorded before the k-th one, that is, it
\* was visited when the k-th rectangle was recorded.
VisitedBefore(k, i) == \E j \in 1 .. k - 1 : PixelIn(rects[j], i)

\* The pixel is outside the raster, was visited when the k-th rectangle was
\* recorded, or has not exactly the colour c.
StopsRun(k, x, y, c) ==
  \/ x >= imgW
  \/ y >= imgH
  \/ VisitedBefore(k, getIndex(imgW, x, y))
  \/ PixelAt(getIndex(imgW, x, y)) # c

\* C24: every rectangle of the greedy decomposition starts at the first
\* pixel in row-major order that was unvisited and foreground when it was
\* recorded; its width is maximal (the pixel right of it stops the run); its
\* height is maximal for that width (the row below it holds a pixel that
\* stops the run); and the rectangles are recorded in strictly increasing
\* row-major order of their top-left corner.
C24_GreedyStep ==
  Decomposed =>
    \A k \in 1 .. Len(rects) :
       LET rc == rects[k]
           start == getIndex(imgW, rc.x, rc.y)
       IN /\ ~Elided(PixelAt(start))
          /\ ~VisitedBefore(k, start)
          /\ PixelAt(start) = ColourOf(rc)
          /\ \A i \in 0 .. start - 1 :
                \/ Elided(PixelAt(i))
                \/ VisitedBefore(k, i)
          /\ StopsRun(k, rc.x + rc.width, rc.y, ColourOf(rc))
          /\ \E x \in rc.x .. rc.x + rc.width - 1 :
                StopsRun(k, x, rc.y + rc.height, ColourOf(rc))
          /\ \A j \in 1 .. k - 1 :
                getIndex(imgW, rects[j].x, rects[j].y) < start

\* A decomposition in which a rectangle's run to the right ends at a pixel
\* of another foreground colour and its run downwards ends inside the
\* raster.
C24_Witness ==
  /\ Decomposed
  /\ \E k \in 1 .. Len(rects) :
        /\ rects[k].x + rects[k].width < imgW
        /\ rects[k].y + rects[k].height < imgH
        /\ rects[k].height >= 2
        /\ ~Elided(PixelAt(getIndex(imgW, rects[k].x + rects[k].width,
                                    rects[k].y)))

\* The pixels that are not background.
Foreground == { i \in DOMAIN img : ~Elided(PixelAt(i)) }

\* The pixels of the rectangle of width rw and height rh whose top-left
\* corner is pixel i.
Block(i, rw, rh) ==
  { getIndex(imgW, (i % imgW) + dx, (i \div imgW) + dy) :
      dx \in 0 .. rw - 1, dy \in 0 .. rh - 1 }

\* The pixel set u splits into n or fewer single-colour rectangles.  The
\* first pixel of u in row-major order is the top-left corner of its
\* rectangle.
RECURSIVE CanCover(_, _)
CanCover(u, n) ==
  \/ u = {}
  \/ /\ n > 0
     /\ LET i == CHOOSE k \in u : \A m \in u : k <= m
        IN \E rw \in 1 .. imgW - (i % imgW), rh \in 1 .. imgH - (i \div imgW) :
              /\ Block(i, rw, rh) \subseteq u
              /\ \A k \in Block(i, rw, rh) : PixelAt(k) = PixelAt(i)
              /\ CanCover(u \ Block(i, rw, rh), n - 1)

\* C28: the greedy decomposition is minimal: the foreground pixels do not
\* split into fewer pairwise-disjoint single-colour rectangles than the
\* decomposition returns.
C28_GreedyMinimal ==
  Decomposed => \A n \in 0 .. Len(rects) - 1 : ~CanCover(Foreground, n)

\* A step of the merge loop: one pass.
IsPass == npasses' = npasses + 1

\* No pixel lies in two rectangles of the list.
PairwiseDisjoint(rs) ==
  \A i \in DOMAIN img : Cardinality(Covering(rs, i)) <= 1

\* C29: the merge loop of the original decomposition terminates: a pass
\* that merged a pair returns fewer rectangles and is followed by another
\* pass, a pass that merged nothing returns the list it was given and ends
\* the loop, every pass leaves each pixel covered by the same colours and
\* keeps the rectangles pairwise disjoint, and a loop once entered ends.
C29_MergeLoopTerminates ==
  /\ [][IsPass =>
          /\ merged' => (Len(allRects') < Len(allRects) /\ orig' = "loop")
          /\ ~merged' => (allRects' = allRects /\ orig' = "returned")
          /\ \A i \in DOMAIN img :
                ColoursOver(allRects', i) = ColoursOver(allRects, i)
          /\ PairwiseDisjoint(allRects) => PairwiseDisjoint(allRects')]_vars
  /\ [](orig = "loop" /\ npasses = 0 => PairwiseDisjoint(allRects))
  /\ (orig = "loop") ~> (orig = "returned")

\* The function has returned after two merging passes and a pass without a
\* merge, with rectangles of two colours.
C29_Witness ==
  /\ orig = "returned"
  /\ npasses >= 3
  /\ \E j, k \in 1 .. Len(allRects) :
        ColourOf(allRects[j]) # ColourOf(allRects[k])
  /\ \E k \in 1 .. Len(allRects) : allRects[k].height >= 3

\* C30: the greedy decomposition returns no two rectangles of one colour
\* that could be merged into one: none side by side with equal y and
\* height, none stacked with equal x and width.
C30_NoMergeablePair ==
  Decomposed =>
    \A j, k \in 1 .. Len(rects) :
       (j # k /\ ColourOf(rects[j]) = ColourOf(rects[k])) =>
          /\ ~(/\ rects[j].y = rects[k].y
               /\ rects[j].height = rects[k].height
               /\ rects[j].x + rects[j].width = rects[k].x)
          /\ ~(/\ rects[j].x = rects[k].x
               /\ rects[j].width = rects[k].width
               /\ rects[j].y + rects[j].height = rects[k].y)

\* A decomposition with two rectangles of one colour side by side along
\* part of an edge, and two of one colour stacked with the same x and
\* different widths.
C30_Witness ==
  /\ Decomposed
  /\ \E j, k \in 1 .. Len(rects) :
        /\ ColourOf(rects[j]) = ColourOf(rects[k])
        /\ rects[j].x + rects[j].width = rects[k].x
        /\ rects[j].y < rects[k].y + rects[k].height
        /\ rects[k].y < rects[j].y + rects[j].height
  /\ \E j, k \in 1 .. Len(rects) :
        /\ ColourOf(rects[j]) = ColourOf(rects[k])
        /\ rects[j].y + rects[j].height = rects[k].y
        /\ rects[j].x = rects[k].x
        /\ rects[j].width # rects[k].width

(***************************************************************************)
(* The matrix pass of the SVG encoders.                                    *)
(***************************************************************************)
NTopLeft == 1
NTop == 2
NTopRight == 4
NLeft == 8
NSelf == 16
NRight == 32
NBotLeft == 64
NBot == 128
NBotRight == 256

\* The 3x3 neighbourhood in the order of the bit layout.
Offsets ==
  << [dx |-> -1, dy |-> -1, bit |-> NTopLeft],
     [dx |-> 0,  dy |-> -1, bit |-> NTop],
     [dx |-> 1,  dy |-> -1, bit |-> NTopRight],
     [dx |-> -1, dy |-> 0,  bit |-> NLeft],
     [dx |-> 0,  dy |-> 0,  bit |-> NSelf],
     [dx |-> 1,  dy |-> 0,  bit |-> NRight],
     [dx |-> -1, dy |-> 1,  bit |-> NBotLeft],
     [dx |-> 0,  dy |-> 1,  bit |-> NBot],
     [dx |-> 1,  dy |-> 1,  bit |-> NBotRight] >>

White == [r |-> 255, g |-> 255, b |-> 255, a |-> 255]

Black == [r |-> 0, g |-> 0, b |-> 0, a |-> 255]

Transparent == [r |-> 0, g |-> 0, b |-> 0, a |-> 0]

Red == [r |-> 255, g |-> 0, b |-> 0, a |-> 255]

InMatrix(m, x, y) == x >= 0 /\ x < m.width /\ y >= 0 /\ y < m.height

IsSet(m, x, y) == m.set[getIndex(m.width, x, y)]

TypeOf(m, x, y) == m.typ[getIndex(m.width, x, y)]

\* bitmap[y][x] as a function of the cell index; a cell outside it is unset.
RECURSIVE SumBits(_, _, _, _, _)
SumBits(bitmap, m, x, y, k) ==
  IF k > Len(Offsets) THEN 0
  ELSE LET o == Offsets[k]
           on == /\ InMatrix(m, x + o.dx, y + o.dy)
                 /\ bitmap[getIndex(m.width, x + o.dx, y + o.dy)]
       IN (IF on THEN o.bit ELSE 0) + SumBits(bitmap, m, x, y, k + 1)

getNeighbours(bitmap, m, x, y) == SumBits(bitmap, m, x, y, 1)

validLogoImage(width, height, logoWidth, logoHeight, logoSizeMultiplier) ==
  /\ width >= logoSizeMultiplier * logoWidth
  /\ height >= logoSizeMultiplier * logoHeight

\* Go's integer division truncates toward zero.
GoDiv(a, b) == IF a >= 0 THEN a \div b ELSE -((-a) \div b)

blockOverlapsLogo(x, y, blockWidth, borderLeft, borderTop, width, height, logoWidth, logoHeight) ==
  LET logoX == GoDiv(width - logoWidth, 2)
      logoY == GoDiv(height - logoHeight, 2)
      zone == 2 * blockWidth
      blockX == x * blockWidth + borderLeft
      blockY == y * blockWidth + borderTop
  IN /\ blockX < logoX + logoWidth + zone
     /\ blockX + blockWidth > logoX - zone
     /\ blockY < logoY + logoHeight + zone
     /\ blockY + blockWidth > logoY - zone

translateToRGBA(o, m, x, y) ==
  IF IsSet(m, x, y) THEN o.qrColor ELSE o.bgColor

\* The binarized halftone image at 3*cols x 3*rows: every pixel is black or
\* white.
halftoneColor(o, px, py) ==
  LET c == IF o.halftone = "black" THEN Black
           ELSE IF (px + py) % 2 = 0 THEN Black ELSE White
  IN IF o.bgTransparent /\ c = White THEN Transparent ELSE c

hasLogo(o) == o.logo.w > 0

\* A slip that walks the matrix column by column.
CellsByColumn(m) == [k \in 1 .. m.width * m.height |->
                       [x |-> (k - 1) \div m.height, y |-> (k - 1) % m.height]]

Cells(m) == [k \in 1 .. m.width * m.height |->
               [x |-> (k - 1) % m.width, y |-> (k - 1) \div m.width]]

RECURSIVE Concat(_, _)
Concat(ss, k) == IF k > Len(ss) THEN << >> ELSE ss[k] \o Concat(ss, k + 1)

SubCells == << <<0, 0>>, <<0, 1>>, <<0, 2>>, <<1, 0>>, <<1, 1>>, <<1, 2>>,
               <<2, 0>>, <<2, 1>>, <<2, 2>> >>

\* One shape invocation: the module, its DrawContext and the fill written
\* around the shape's output.
Call(x, y, kind, bx, by, w, sub, nb, fill) ==
  [x |-> x, y |-> y, kind |-> kind, bx |-> bx, by |-> by, w |-> w, h |-> w,
   sub |-> sub, neighbours |-> nb, fill |-> fill]

\* A slip that leaves the occupancy grid as the matrix gives it.
svgBitmapNoClear(m, o, width, height, logoValid) ==
  [i \in 0 .. m.width * m.height - 1 |-> m.set[i]]

svgBitmap(m, o, width, height, logoValid) ==
  [i \in 0 .. m.width * m.height - 1 |->
     IF /\ logoValid /\ o.logoSafeZone
        /\ blockOverlapsLogo(i % m.width, i \div m.width, o.qrBlockWidth,
                             o.borderWidths[3], o.borderWidths[0],
                             width, height, o.logo.w, o.logo.h)
     THEN FALSE
     ELSE m.set[i]]

svgWidth(m, o) ==
  m.width * o.qrBlockWidth + o.borderWidths[0] + o.borderWidths[1]

svgHeight(m, o) ==
  m.height * o.qrBlockWidth + o.borderWidths[2] + o.borderWidths[3]

\* A slip that samples the halftone image for the centre sub-cell too.
svgSubCallsAllSampled(m, o, x, y, blockX, blockY, nb) ==
  LET one(s) ==
        LET subColor == halftoneColor(o, x * 3 + s[1], y * 3 + s[2])
        IN IF IsBackground(subColor) THEN << >>
           ELSE << Call(x, y, "draw", blockX, blockY, o.qrBlockWidth \div 3,
                        s, nb, subColor) >>
  IN Concat([k \in 1 .. Len(SubCells) |-> one(SubCells[k])], 1)

svgSubCalls(m, o, x, y, blockX, blockY, nb) ==
  LET one(s) ==
        LET subColor == IF s[1] = 1 /\ s[2] = 1
                        THEN translateToRGBA(o, m, x, y)
                        ELSE halftoneColor(o, x * 3 + s[1], y * 3 + s[2])
        IN IF IsBackground(subColor) THEN << >>
           ELSE << Call(x, y, "draw", blockX, blockY, o.qrBlockWidth \div 3,
                        s, nb, subColor) >>
  IN Concat([k \in 1 .. Len(SubCells) |-> one(SubCells[k])], 1)

svgModule(m, o, bitmap, width, height, logoValid, x, y) ==
  LET blockX == x * o.qrBlockWidth + o.borderWidths[3]
      blockY == y * o.qrBlockWidth + o.borderWidths[0]
      nb == getNeighbours(bitmap, m, x, y)
      fill == IF o.gradient THEN "url(#qrGradient)"
              ELSE translateToRGBA(o, m, x, y)
  IN IF /\ logoValid /\ o.logoSafeZone
        /\ blockOverlapsLogo(x, y, o.qrBlockWidth, o.borderWidths[3],
                             o.borderWidths[0], width, height,
                             o.logo.w, o.logo.h)
     THEN << >>
     ELSE IF o.halftone # "none" /\ TypeOf(m, x, y) = "DATA"
     THEN svgSubCalls(m, o, x, y, blockX, blockY, nb)
     ELSE IF ~IsSet(m, x, y) THEN << >>
     ELSE << Call(x, y, IF TypeOf(m, x, y) = "FINDER" THEN "finder" ELSE "draw",
                  blockX, blockY, o.qrBlockWidth, << >>, nb, fill) >>

svgEncodeMatrix(m, o) ==
  LET width == svgWidth(m, o)
      height == svgHeight(m, o)
      logoValid == /\ hasLogo(o)
                   /\ validLogoImage(width, height, o.logo.w, o.logo.h,
                                     o.logoSizeMultiplier)
      bitmap == svgBitmap(m, o, width, height, logoValid)
      cs == Cells(m)
  IN [done |-> TRUE, width |-> width, height |-> height,
      calls |-> Concat([k \in 1 .. Len(cs) |->
                          svgModule(m, o, bitmap, width, height, logoValid,
                                    cs[k].x, cs[k].y)], 1)]

svgoWidth(m, o) ==
  m.width * o.qrBlockWidth + o.borderWidths[3] + o.borderWidths[1]

svgoHeight(m, o) ==
  m.height * o.qrBlockWidth + o.borderWidths[0] + o.borderWidths[2]

svgoSubCalls(m, o, x, y, blockX, blockY) ==
  LET one(s) ==
        LET c == halftoneColor(o, x * 3 + s[1], y * 3 + s[2])
            centre == s[1] = 1 /\ s[2] = 1
            fill == IF centre
                    THEN IF o.gradient THEN "url(#qrGradient)"
                         ELSE translateToRGBA(o, m, x, y)
                    ELSE c
        IN IF ~centre /\ c.a = 0 THEN << >>
           ELSE << Call(x, y, "draw", blockX, blockY, o.qrBlockWidth \div 3,
                        s, 0, fill) >>
  IN Concat([k \in 1 .. Len(SubCells) |-> one(SubCells[k])], 1)

svgoModule(m, o, width, height, x, y) ==
  LET blockX == x * o.qrBlockWidth + o.borderWidths[3]
      blockY == y * o.qrBlockWidth + o.borderWidths[0]
      logoX == GoDiv(width - o.logo.w, 2)
      logoY == GoDiv(height - o.logo.h, 2)
      logoSafeZone == o.qrBlockWidth * 2
      fill == IF o.gradient THEN "url(#qrGradient)"
              ELSE translateToRGBA(o, m, x, y)
  IN IF ~IsSet(m, x, y) THEN << >>
     ELSE IF /\ hasLogo(o) /\ o.logoSafeZone
             /\ blockX >= logoX - logoSafeZone
             /\ blockX < logoX + o.logo.w + logoSafeZone
             /\ blockY >= logoY - logoSafeZone
             /\ blockY < logoY + o.logo.h + logoSafeZone
     THEN << >>
     ELSE IF o.halftone # "none" /\ TypeOf(m, x, y) # "FINDER"
     THEN svgoSubCalls(m, o, x, y, blockX, blockY)
     ELSE << Call(x, y, IF TypeOf(m, x, y) = "FINDER" THEN "finder" ELSE "draw",
                  blockX, blockY, o.qrBlockWidth, << >>,
                  getNeighbours(m.set, m, x, y), fill) >>

svgoEncodeMatrix(m, o) ==
  LET width == svgoWidth(m, o)
      height == svgoHeight(m, o)
      cs == Cells(m)
  IN [done |-> TRUE, width |-> width, height |-> height,
      calls |-> Concat([k \in 1 .. Len(cs) |->
                          svgoModule(m, o, width, height, cs[k].x, cs[k].y)], 1)]

NoOutput == [done |-> FALSE, width |-> 0, height |-> 0, calls |-> << >>]

Matrices(typs) ==
  UNION { { [width |-> c, height |-> r, set |-> s, typ |-> t] :
              s \in [0 .. c * r - 1 -> BOOLEAN],
              t \in { [i \in 0 .. c * r - 1 |->
                         IF i = 0 THEN ty ELSE "DATA"] : ty \in typs } } :
          c \in 1 .. MaxCols, r \in 1 .. MaxRows }

Options(borders, blocks, logos, zones, halftones, qrColors) ==
  { [borderWidths |-> bw, qrBlockWidth |-> b, logo |-> l, logoSafeZone |-> z,
     logoSizeMultiplier |-> 1, halftone |-> ht, gradient |-> FALSE,
     bgTransparent |-> FALSE, qrColor |-> qc, bgColor |-> White] :
      bw \in borders, b \in blocks, l \in logos, z \in zones,
      ht \in halftones, qc \in qrColors }

NoLogo == [w |-> 0, h |-> 0]

\* Halftone sources after scaling and binarization: all black, or a
\* checkerboard of black and white pixels.
HalftoneImages == {"black", "checker"}

SmallLogo == [w |-> 1, h |-> 1]

AllBorders == [0 .. 3 -> 0 .. MaxBorder]

\* No border, or a border on the top and right sides only.
TwoBorders ==
  { [i \in 0 .. 3 |-> 0],
    [i \in 0 .. 3 |-> IF i < 2 THEN MaxBorder ELSE 0] }

\* The same border on all four sides.
UniformBorders == { [i \in 0 .. 3 |-> b] : b \in 0 .. MaxBorder }

\* One row of modules, wide enough to reach beyond a centred safe zone.
WideRows ==
  { [width |-> 3 * MaxCols, height |-> 1, set |-> s,
     typ |-> [i \in 0 .. 3 * MaxCols - 1 |-> "DATA"]] :
      s \in [0 .. 3 * MaxCols - 1 -> BOOLEAN] }

\* Inputs of the render: a fully set matrix under every border
\* configuration; every matrix of unit modules with and without a logo and
\* its safe zone;
\* every matrix under a halftone image; a wide row under uniform borders
\* with and without a logo and its safe zone.
MatrixInputs ==
  \/ /\ mat \in Matrices({"DATA", "FINDER"})
     /\ \A i \in DOMAIN mat.set : mat.set[i]
     /\ opts \in Options(AllBorders, 1 .. MaxBlock, {NoLogo}, {FALSE},
                         {"none"}, {Black})
  \/ /\ mat \in Matrices({"DATA", "FINDER"})
     /\ opts \in Options(TwoBorders, {1}, {NoLogo, SmallLogo}, BOOLEAN,
                         {"none"}, {Black})
  \/ /\ mat \in Matrices({"DATA", "FINDER"})
     /\ opts \in Options({[i \in 0 .. 3 |-> 0]}, 1 .. MaxBlock, {NoLogo},
                         {FALSE}, HalftoneImages, {Black, Red})
  \/ /\ mat \in WideRows
     /\ opts \in Options(UniformBorders, 1 .. MaxBlock, {NoLogo, SmallLogo},
                         BOOLEAN, {"none"}, {Black})

MatrixInit ==
  /\ MatrixInputs
  /\ svgOut = NoOutput
  /\ svgoOut = NoOutput
  /\ imgW = 0 /\ imgH = 0 /\ img = << >> /\ paints = 0 /\ phase = "idle"
  /\ rects = << >> /\ marks = << >> /\ oldRects = << >>
  /\ orig = "idle" /\ allRects = << >> /\ merged = FALSE /\ npasses = 0
  /\ pr = << >> /\ sr = << >> /\ ncmds = 0 /\ lastCmd = "idle"
  /\ svgPath = << >>
  /\ src = << >> /\ threshold = 0 /\ dst = << >> /\ kitOp = "idle"
  /\ gradient = [width |-> 0] /\ gradientDef = [done |-> FALSE]
  /\ svgoDef = [done |-> FALSE]
  /\ dctx = [w |-> 0] /\ shapeOut = [done |-> FALSE]
  /\ oo = [borderWidths |-> << >>] /\ widths = << >> /\ napplied = 0
  /\ lastOpt = [name |-> "none"] /\ nextra = 0 /\ optErr = "nil"
  /\ printed = ""
  /\ job = << >> /\ sink = << >> /\ sinkLog = << >> /\ ret = [done |-> FALSE]


SvgEncodeMatrix ==
  /\ ~svgOut.done
  /\ ~svgoOut.done
  /\ svgOut' = svgEncodeMatrix(mat, opts)
  /\ UNCHANGED << mat, opts, svgoOut >>
  /\ UNCHANGED << rectVars, recorderVars, kitVars, gradientVars,
                  shapeVars, optionVars, sinkVars >>

SvgoEncodeMatrix ==
  /\ ~svgOut.done
  /\ ~svgoOut.done
  /\ svgoOut' = svgoEncodeMatrix(mat, opts)
  /\ UNCHANGED << mat, opts, svgOut >>
  /\ UNCHANGED << rectVars, recorderVars, kitVars, gradientVars,
                  shapeVars, optionVars, sinkVars >>

MatrixNext ==
  \/ SvgEncodeMatrix
  \/ SvgoEncodeMatrix

SpecMatrix == MatrixInit /\ [][MatrixNext]_vars

(***************************************************************************)
(* Properties of the matrix pass.  The four border widths are stored as    *)
(* top, right, bottom, left.                                               *)
(***************************************************************************)
TopBorder == opts.borderWidths[0]

RightBorder == opts.borderWidths[1]

BottomBorder == opts.borderWidths[2]

LeftBorder == opts.borderWidths[3]

CanvasIs(out) ==
  /\ out.width = mat.width * opts.qrBlockWidth + LeftBorder + RightBorder
  /\ out.height = mat.height * opts.qrBlockWidth + TopBorder + BottomBorder

\* C5: the canvas declared by either vector encoder is
\* cols*blockWidth + left + right wide and rows*blockWidth + top + bottom
\* high, for every matrix and every border configuration.
C5_CanvasSize ==
  /\ svgOut.done => CanvasIs(svgOut)
  /\ svgoOut.done => CanvasIs(svgoOut)

ModuleX(x) == x * opts.qrBlockWidth + LeftBorder

ModuleY(y) == y * opts.qrBlockWidth + TopBorder

InModule(px, py, x, y) ==
  /\ px >= ModuleX(x) /\ px < ModuleX(x) + opts.qrBlockWidth
  /\ py >= ModuleY(y) /\ py < ModuleY(y) + opts.qrBlockWidth

InBorderStrip(px, py) ==
  \/ px >= 0 /\ px < LeftBorder
  \/ /\ px >= ModuleX(mat.width)
     /\ px < ModuleX(mat.width) + RightBorder
  \/ py >= 0 /\ py < TopBorder
  \/ /\ py >= ModuleY(mat.height)
     /\ py < ModuleY(mat.height) + BottomBorder

ModuleSet == { << x, y >> : x \in 0 .. mat.width - 1, y \in 0 .. mat.height - 1 }

\* C6: a module handed to a shape has origin
\* (x*blockWidth + left, y*blockWidth + top) and side blockWidth; every
\* module rectangle lies inside the declared canvas; every pixel of the
\* declared canvas lies in exactly one module rectangle or else in a border
\* strip.
C6_Tiling ==
  svgOut.done =>
    /\ \A k \in 1 .. Len(svgOut.calls) :
         LET c == svgOut.calls[k]
         IN c.sub = << >> =>
              /\ c.bx = ModuleX(c.x) /\ c.by = ModuleY(c.y)
              /\ c.w = opts.qrBlockWidth /\ c.h = opts.qrBlockWidth
    /\ \A m \in ModuleSet :
         /\ ModuleX(m[1]) + opts.qrBlockWidth <= svgOut.width
         /\ ModuleY(m[2]) + opts.qrBlockWidth <= svgOut.height
    /\ \A px \in 0 .. svgOut.width - 1 : \A py \in 0 .. svgOut.height - 1 :
         LET holders == { m \in ModuleSet : InModule(px, py, m[1], m[2]) }
         IN IF InBorderStrip(px, py) THEN holders = {}
            ELSE Cardinality(holders) = 1

HasBit(n, bit) == (n \div bit) % 2 = 1

\* The cell is hidden by the safe zone of a logo the encoder accepted.
Occluded(x, y) ==
  /\ hasLogo(opts)
  /\ validLogoImage(svgOut.width, svgOut.height, opts.logo.w, opts.logo.h,
                    opts.logoSizeMultiplier)
  /\ opts.logoSafeZone
  /\ blockOverlapsLogo(x, y, opts.qrBlockWidth, LeftBorder, TopBorder,
                       svgOut.width, svgOut.height, opts.logo.w, opts.logo.h)

\* C7 as stated: for every module handed to a shape, a bit of the neighbour
\* mask is set exactly when the cell at its offset is inside the matrix and
\* set in the matrix, with or without a logo safe zone.
C7_MaskOfMatrix ==
  svgOut.done =>
    \A k \in 1 .. Len(svgOut.calls) : \A j \in 1 .. Len(Offsets) :
       LET c == svgOut.calls[k]
           nx == c.x + Offsets[j].dx
           ny == c.y + Offsets[j].dy
       IN HasBit(c.neighbours, Offsets[j].bit)
            <=> (InMatrix(mat, nx, ny) /\ IsSet(mat, nx, ny))

\* C7, amended: for every module handed to a shape, a bit of the neighbour
\* mask is set exactly when the cell at its offset is inside the matrix, set
\* in the matrix and not hidden by the safe zone of an accepted logo; no
\* bit above the ninth is set.
C7_MaskOfOccupancy ==
  svgOut.done =>
    \A k \in 1 .. Len(svgOut.calls) :
       /\ svgOut.calls[k].neighbours < 2 * NBotRight
       /\ \A j \in 1 .. Len(Offsets) :
            LET c == svgOut.calls[k]
                nx == c.x + Offsets[j].dx
                ny == c.y + Offsets[j].dy
            IN HasBit(c.neighbours, Offsets[j].bit)
                 <=> /\ InMatrix(mat, nx, ny)
                     /\ IsSet(mat, nx, ny)
                     /\ ~Occluded(nx, ny)

\* Under uniform borders, a module handed to a shape next to a set module
\* that the safe zone hides and next to the edge of the matrix.
C7_Witness ==
  /\ svgOut.done
  /\ CanvasIs(svgOut)
  /\ \E k \in 1 .. Len(svgOut.calls) : \E j \in 1 .. Len(Offsets) :
        LET c == svgOut.calls[k]
            nx == c.x + Offsets[j].dx
            ny == c.y + Offsets[j].dy
        IN /\ HasBit(c.neighbours, NSelf)
           /\ c.x = mat.width - 1
           /\ InMatrix(mat, nx, ny) /\ IsSet(mat, nx, ny) /\ Occluded(nx, ny)

\* The module's pixel rectangle meets the logo's centred box, expanded by
\* twice the block width on each side, on the canvas the encoder declared.
MeetsSafeZone(out, x, y) ==
  LET logoX == GoDiv(out.width - opts.logo.w, 2)
      logoY == GoDiv(out.height - opts.logo.h, 2)
      zone == 2 * opts.qrBlockWidth
  IN /\ ModuleX(x) < logoX + opts.logo.w + zone
     /\ ModuleX(x) + opts.qrBlockWidth > logoX - zone
     /\ ModuleY(y) < logoY + opts.logo.h + zone
     /\ ModuleY(y) + opts.qrBlockWidth > logoY - zone

NoOutputInSafeZone(out) ==
  (out.done /\ hasLogo(opts) /\ opts.logoSafeZone) =>
    \A k \in 1 .. Len(out.calls) :
       ~MeetsSafeZone(out, out.calls[k].x, out.calls[k].y)

\* C12: with a logo and its safe zone, a module whose pixel rectangle meets
\* the expanded logo box is handed to no shape, in either vector encoder.
C12_SafeZoneExclusion ==
  /\ NoOutputInSafeZone(svgOut)
  /\ NoOutputInSafeZone(svgoOut)

CallsOf(out, x, y) ==
  { k \in 1 .. Len(out.calls) : out.calls[k].x = x /\ out.calls[k].y = y }

Subdivided(x, y) == opts.halftone # "none" /\ TypeOf(mat, x, y) = "DATA"

\* C13: svgEncoder walks the matrix once in row-major order: its shape
\* invocations come in row-major order of their modules; an unset module
\* gives none unless it is a DATA module under halftone; a set module that
\* is neither hidden by the safe zone nor subdivided gives exactly one,
\* drawFinder for a FINDER module and draw for any other.
C13_OnePass ==
  svgOut.done =>
    /\ \A j, k \in 1 .. Len(svgOut.calls) :
         j < k => getIndex(mat.width, svgOut.calls[j].x, svgOut.calls[j].y)
                    <= getIndex(mat.width, svgOut.calls[k].x, svgOut.calls[k].y)
    /\ \A m \in ModuleSet :
         /\ (~IsSet(mat, m[1], m[2]) /\ ~Subdivided(m[1], m[2]))
              => CallsOf(svgOut, m[1], m[2]) = {}
         /\ (IsSet(mat, m[1], m[2]) /\ ~Occluded(m[1], m[2])
               /\ ~Subdivided(m[1], m[2]))
              => /\ Cardinality(CallsOf(svgOut, m[1], m[2])) = 1
                 /\ \A k \in CallsOf(svgOut, m[1], m[2]) :
                      /\ svgOut.calls[k].sub = << >>
                      /\ svgOut.calls[k].kind =
                           (IF TypeOf(mat, m[1], m[2]) = "FINDER"
                            THEN "finder" ELSE "draw")

\* A pass over two rows or more that drew a FINDER module, then a DATA
\* module of the same row, then a module of a later row, and left an unset
\* module out.
C13_Witness ==
  /\ svgOut.done
  /\ \E i, j, k \in 1 .. Len(svgOut.calls) :
        /\ i < j /\ j < k
        /\ svgOut.calls[i].kind = "finder"
        /\ svgOut.calls[j].kind = "draw"
        /\ svgOut.calls[j].y = svgOut.calls[i].y
        /\ svgOut.calls[k].y > svgOut.calls[j].y
  /\ \E m \in ModuleSet :
        ~IsSet(mat, m[1], m[2]) /\ CallsOf(svgOut, m[1], m[2]) = {}

NineSubCells(out) ==
  (out.done /\ opts.halftone # "none") =>
    \A m \in ModuleSet :
       (TypeOf(mat, m[1], m[2]) = "DATA" /\ ~Occluded(m[1], m[2])) =>
         /\ Cardinality(CallsOf(out, m[1], m[2])) = 9
         /\ { out.calls[k].sub : k \in CallsOf(out, m[1], m[2]) }
              = { SubCells[j] : j \in 1 .. Len(SubCells) }

\* C14: under halftone every DATA module that the safe zone does not hide
\* is drawn as exactly 9 sub-cell calls, one per cell of its 3x3
\* subdivision, in either vector encoder.
C14_NineSubCells ==
  /\ NineSubCells(svgOut)
  /\ NineSubCells(svgoOut)

IsCentre(c) == c.sub = << 1, 1 >>

CentreCalls(calls) == SelectSeq(calls, IsCentre)

Shade(v) == [r |-> v, g |-> v, b |-> v, a |-> 255]

PixelX(im, k) == im.min[1] + (k % im.w)

PixelY(im, k) == im.min[2] + (k \div im.w)

InBounds(im, x, y) ==
  /\ x >= im.min[1] /\ x < im.min[1] + im.w
  /\ y >= im.min[2] /\ y < im.min[2] + im.h

\* At returns the zero colour outside the bounds.
At(im, x, y) ==
  IF InBounds(im, x, y)
  THEN im.pix[(y - im.min[2]) * im.w + (x - im.min[1])]
  ELSE Transparent

\* color.GrayModel.Convert: (19595*r + 38470*g + 7471*b + 1<<15) >> 24 over
\* the 16-bit channels r = 257 * c.r (and so on).  With s the weighted sum of
\* the 8-bit channels this is (257*s + 32768) \div 2^24, computed here as
\* (s + (s + 32768) \div 256) \div 2^16 to stay within 32 bits.
GrayModel(c) ==
  LET s == 19595 * c.r + 38470 * c.g + 7471 * c.b
  IN (s + ((s + 32768) \div 256)) \div 65536

\* The loops run j over 0 .. width-1 and i over 0 .. height-1 and address the
\* pixel (j, i); a write outside the bounds does nothing.
Looped(im, x, y) == x >= 0 /\ x < im.w /\ y >= 0 /\ y < im.h

Gray(im) ==
  [kind |-> "gray", min |-> im.min, w |-> im.w, h |-> im.h,
   pix |-> [k \in 0 .. im.w * im.h - 1 |->
              IF Looped(im, PixelX(im, k), PixelY(im, k))
              THEN GrayModel(At(im, PixelX(im, k), PixelY(im, k)))
              ELSE 0]]

\* A slip that does what the comment of Binaryzation says: with
\* useOriginalColors a pixel at or below the threshold is set to black.
BinaryzationBlackening(im, t, useOriginalColors) ==
  [kind |-> "rgba", min |-> im.min, w |-> im.w, h |-> im.h,
   pix |-> [k \in 0 .. im.w * im.h - 1 |->
              IF GrayModel(im.pix[k]) > t THEN im.pix[k] ELSE Black]]

Binaryzation(im, t, useOriginalColors) ==
  IF useOriginalColors
  THEN [kind |-> "rgba", min |-> im.min, w |-> im.w, h |-> im.h,
        pix |-> [k \in 0 .. im.w * im.h - 1 |->
                   At(im, PixelX(im, k), PixelY(im, k))]]
  ELSE LET gray == Gray(im)
       IN [gray EXCEPT !.pix =
             [k \in 0 .. im.w * im.h - 1 |->
                IF Looped(im, PixelX(im, k), PixelY(im, k))
                THEN IF gray.pix[k] > t THEN 255 ELSE 0
                ELSE gray.pix[k]]]

KitThresholds == {0, 100, 255}

KitColours == { Shade(0), Shade(1), Shade(100), Shade(101), Shade(255), Red }

\* Images of one colour, with one pixel of a second colour.
KitImages ==
  UNION { { [kind |-> "rgba", min |-> << mx, my >>, w |-> w, h |-> h,
             pix |-> [k \in 0 .. w * h - 1 |-> IF k = spot THEN d ELSE c]] :
              c \in KitColours, d \in KitColours, spot \in 0 .. w * h - 1,
              mx \in 0 .. MaxSrcMin, my \in 0 .. MaxSrcMin } :
          w \in 1 .. MaxSrcW, h \in 1 .. MaxSrcH }

KitInit ==
  /\ src \in KitImages
  /\ threshold \in KitThresholds
  /\ dst = << >>
  /\ kitOp = "loaded"
  /\ imgW = 0 /\ imgH = 0 /\ img = << >> /\ paints = 0 /\ phase = "idle"
  /\ rects = << >> /\ marks = << >> /\ oldRects = << >>
  /\ orig = "idle" /\ allRects = << >> /\ merged = FALSE /\ npasses = 0
  /\ mat = << >> /\ opts = << >>
  /\ svgOut = [done |-> FALSE] /\ svgoOut = [done |-> FALSE]
  /\ pr = << >> /\ sr = << >> /\ ncmds = 0 /\ lastCmd = "idle"
  /\ svgPath = << >>
  /\ gradient = [width |-> 0] /\ gradientDef = [done |-> FALSE]
  /\ svgoDef = [done |-> FALSE]
  /\ dctx = [w |-> 0] /\ shapeOut = [done |-> FALSE]
  /\ oo = [borderWidths |-> << >>] /\ widths = << >> /\ napplied = 0
  /\ lastOpt = [name |-> "none"] /\ nextra = 0 /\ optErr = "nil"
  /\ printed = ""
  /\ job = << >> /\ sink = << >> /\ sinkLog = << >> /\ ret = [done |-> FALSE]

CallBinaryzation(useOriginalColors) ==
  /\ kitOp = "loaded"
  /\ dst' = Binaryzation(src, threshold, useOriginalColors)
  /\ kitOp' = IF useOriginalColors THEN "BinaryzationColors"
              ELSE "Binaryzation"
  /\ UNCHANGED << src, threshold >>
  /\ UNCHANGED << rectVars, matrixVars, recorderVars, gradientVars,
                  shapeVars, optionVars, sinkVars >>

CallGray ==
  /\ kitOp = "loaded"
  /\ dst' = Gray(src)
  /\ kitOp' = "Gray"
  /\ UNCHANGED << src, threshold >>
  /\ UNCHANGED << rectVars, matrixVars, recorderVars, gradientVars,
                  shapeVars, optionVars, sinkVars >>

KitNext ==
  \/ \E u \in BOOLEAN : CallBinaryzation(u)
  \/ CallGray

SpecKit == KitInit /\ [][KitNext]_vars

(***************************************************************************)
(* Properties of imgkit.                                                   *)
(***************************************************************************)
\* C16: Binaryzation without useOriginalColors gives an image of pure black
\* and pure white pixels, in which a pixel is white exactly when the
\* grayscale value of the source pixel at its place is above the threshold.
C16_BlackAndWhite ==
  kitOp = "Binaryzation" =>
    \A k \in 0 .. src.w * src.h - 1 :
       /\ dst.pix[k] \in {0, 255}
       /\ dst.pix[k] = 255 <=> GrayModel(src.pix[k]) > threshold

Directions ==
  { [angle |-> "0", cos |-> 1, sin |-> 0, den |-> 1],
    [angle |-> "90", cos |-> 0, sin |-> 1, den |-> 1],
    [angle |-> "180", cos |-> -1, sin |-> 0, den |-> 1],
    [angle |-> "270", cos |-> 0, sin |-> -1, den |-> 1],
    [angle |-> "atan 3/4", cos |-> 4, sin |-> 3, den |-> 5],
    [angle |-> "atan 4/3", cos |-> 3, sin |-> 4, den |-> 5],
    [angle |-> "180 - atan 3/4", cos |-> -4, sin |-> 3, den |-> 5],
    [angle |-> "180 - atan 4/3", cos |-> -3, sin |-> 4, den |-> 5],
    [angle |-> "180 + atan 3/4", cos |-> -4, sin |-> -3, den |-> 5],
    [angle |-> "180 + atan 4/3", cos |-> -3, sin |-> -4, den |-> 5],
    [angle |-> "- atan 3/4", cos |-> 4, sin |-> -3, den |-> 5],
    [angle |-> "- atan 4/3", cos |-> 3, sin |-> -4, den |-> 5] }

GradientStops ==
  { << [T |-> 0, colour |-> Black], [T |-> 1000, colour |-> Red] >>,
    << [T |-> 0, colour |-> Red], [T |-> 500, colour |-> Black],
       [T |-> 1000, colour |-> Red] >> }

\* dx := math.Cos(angleRad), in units of 1 / den.
DirX(g) == g.dir.cos

\* A slip: dy := math.Sin(angleRad), the y axis taken as pointing up.
DirYUp(g) == g.dir.sin

\* dy := -math.Sin(angleRad), in units of 1 / den.
DirY(g) == 0 - g.dir.sin

Corners(g) ==
  { << 0, 0 >>, << 0, g.height >>, << g.width, 0 >>, << g.width, g.height >> }

\* proj := p[0]*dx + p[1]*dy, in units of 1 / den.
Proj(g, p) == p[1] * DirX(g) + p[2] * DirY(g)

MinProj(g) ==
  CHOOSE m \in { Proj(g, p) : p \in Corners(g) } :
    \A p \in Corners(g) : m <= Proj(g, p)

MaxProj(g) ==
  CHOOSE m \in { Proj(g, p) : p \in Corners(g) } :
    \A p \in Corners(g) : m >= Proj(g, p)

\* "%.3f" of num / unit: the nearest thousandth.
Thousandths(num, unit) == (2 * 1000 * num + unit) \div (2 * unit)

\* center -+ halfRange * d over the unit 2 * den^2: center = extent / 2,
\* halfRange = (maxProj - minProj) / (2 * den) and d = dir / den.
EndPoint(g, extent, dir, sign) ==
  Thousandths(extent * g.dir.den * g.dir.den
                + sign * (MaxProj(g) - MinProj(g)) * dir,
              2 * g.dir.den * g.dir.den)

\* int(v) of a float: the fraction is cut off, towards zero.
IntOf(num, unit) ==
  IF num >= 0 THEN num \div unit ELSE 0 - ((0 - num) \div unit)

\* int(center -+ halfRange * d), as writeSvgoGradient takes it.
EndPointInt(g, extent, dir, sign) ==
  IntOf(extent * g.dir.den * g.dir.den
          + sign * (MaxProj(g) - MinProj(g)) * dir,
        2 * g.dir.den * g.dir.den)

clamp(v) == IF v < 0 THEN 0 ELSE IF v > 255 THEN 255 ELSE v

GradientInit ==
  /\ gradient \in [dir : Directions, stops : GradientStops,
                   width : 1 .. MaxCanvasW, height : 1 .. MaxCanvasH]
  /\ gradientDef = [done |-> FALSE]
  /\ svgoDef = [done |-> FALSE]
  /\ imgW = 0 /\ imgH = 0 /\ img = << >> /\ paints = 0 /\ phase = "idle"
  /\ rects = << >> /\ marks = << >> /\ oldRects = << >>
  /\ orig = "idle" /\ allRects = << >> /\ merged = FALSE /\ npasses = 0
  /\ mat = << >> /\ opts = << >>
  /\ svgOut = [done |-> FALSE] /\ svgoOut = [done |-> FALSE]
  /\ pr = << >> /\ sr = << >> /\ ncmds = 0 /\ lastCmd = "idle"
  /\ svgPath = << >>
  /\ src = << >> /\ threshold = 0 /\ dst = << >> /\ kitOp = "idle"
  /\ dctx = [w |-> 0] /\ shapeOut = [done |-> FALSE]
  /\ oo = [borderWidths |-> << >>] /\ widths = << >> /\ napplied = 0
  /\ lastOpt = [name |-> "none"] /\ nextra = 0 /\ optErr = "nil"
  /\ printed = ""
  /\ job = << >> /\ sink = << >> /\ sinkLog = << >> /\ ret = [done |-> FALSE]

writeSVGGradient ==
  /\ ~ gradientDef.done
  /\ gradientDef' =
       [done |-> TRUE,
        x1 |-> EndPoint(gradient, gradient.width, DirX(gradient), -1),
        y1 |-> EndPoint(gradient, gradient.height, DirY(gradient), -1),
        x2 |-> EndPoint(gradient, gradient.width, DirX(gradient), 1),
        y2 |-> EndPoint(gradient, gradient.height, DirY(gradient), 1),
        stops |-> [i \in 1 .. Len(gradient.stops) |->
                     [offset |-> gradient.stops[i].T,
                      r |-> gradient.stops[i].colour.r,
                      g |-> gradient.stops[i].colour.g,
                      b |-> gradient.stops[i].colour.b]]]
  /\ UNCHANGED << gradient, svgoDef >>
  /\ UNCHANGED << rectVars, matrixVars, recorderVars, kitVars, shapeVars,
                  optionVars, sinkVars >>

\* SvgoEncoder.writeSvgoGradient: the same projection, then int() and the
\* clamp to uint8 for canvas.LinearGradient; a stop offset is uint8(T * 100).
writeSvgoGradient ==
  /\ ~ svgoDef.done
  /\ svgoDef' =
       [done |-> TRUE,
        x1 |-> clamp(EndPointInt(gradient, gradient.width, DirX(gradient), -1)),
        y1 |-> clamp(EndPointInt(gradient, gradient.height, DirY(gradient), -1)),
        x2 |-> clamp(EndPointInt(gradient, gradient.width, DirX(gradient), 1)),
        y2 |-> clamp(EndPointInt(gradient, gradient.height, DirY(gradient), 1)),
        stops |-> [i \in 1 .. Len(gradient.stops) |->
                     [offset |-> gradient.stops[i].T \div 10,
                      r |-> gradient.stops[i].colour.r,
                      g |-> gradient.stops[i].colour.g,
                      b |-> gradient.stops[i].colour.b,
                      opacity |-> gradient.stops[i].colour.a]]]
  /\ UNCHANGED << gradient, gradientDef >>
  /\ UNCHANGED << rectVars, matrixVars, recorderVars, kitVars, shapeVars,
                  optionVars, sinkVars >>

GradientNext ==
  \/ writeSVGGradient
  \/ writeSvgoGradient

SpecGradient == GradientInit /\ [][GradientNext]_vars

(***************************************************************************)
(* Properties of the gradient endpoints, in thousandths.                   *)
(***************************************************************************)
CenterX == 500 * gradient.width

CenterY == 500 * gradient.height

\* C18: on a canvas W x H, angle 0 gives the endpoints (centerX - W/2,
\* centerY) and (centerX + W/2, centerY), angle 90 gives the endpoints
\* (centerX, centerY + H/2) and (centerX, centerY - H/2), and for every angle
\* the endpoints are symmetric about the centre and their distance is
\* maxProj - minProj of the four projected corners.
C18_GradientEndpoints ==
  gradientDef.done =>
    LET d == gradientDef
        range == Thousandths(MaxProj(gradient) - MinProj(gradient),
                             gradient.dir.den)
    IN /\ gradient.dir.angle = "0" =>
            /\ d.x1 = CenterX - 500 * gradient.width /\ d.y1 = CenterY
            /\ d.x2 = CenterX + 500 * gradient.width /\ d.y2 = CenterY
       /\ gradient.dir.angle = "90" =>
            /\ d.x1 = CenterX /\ d.y1 = CenterY + 500 * gradient.height
            /\ d.x2 = CenterX /\ d.y2 = CenterY - 500 * gradient.height
       /\ d.x1 + d.x2 = 2 * CenterX
       /\ d.y1 + d.y2 = 2 * CenterY
       /\ (d.x2 - d.x1) * (d.x2 - d.x1) + (d.y2 - d.y1) * (d.y2 - d.y1)
            = range * range

\* C27: for every canvas size and angle, the endpoints writeSvgoGradient
\* hands to the canvas are the projector's endpoints, equal in coordinates
\* to those writeSVGGradient writes.
C27_SameEndpoints ==
  (gradientDef.done /\ svgoDef.done) =>
    /\ 1000 * svgoDef.x1 = gradientDef.x1
    /\ 1000 * svgoDef.y1 = gradientDef.y1
    /\ 1000 * svgoDef.x2 = gradientDef.x2
    /\ 1000 * svgoDef.y2 = gradientDef.y2

\* The gradient of angle 90 has been written for a canvas that is not square.
C18_Witness ==
  /\ gradientDef.done
  /\ gradient.dir.angle = "90"
  /\ gradient.width # gradient.height
  /\ gradientDef.y1 = 1000 * gradient.height
  /\ gradientDef.y2 = 0

(***************************************************************************)
(* The circle shape, raster (circle.Draw) and vector (svgCircle).  The     *)
(* centre and the radius of the command are kept in hundredths, the        *)
(* precision of "%.2f".                                                    *)
(***************************************************************************)
\* radius := c.w / 2; r2 := c.h / 2 over int: the quotients are truncated.
circleRadius(c) ==
  IF c.h \div 2 <= c.w \div 2 THEN c.h \div 2 ELSE c.w \div 2

\* radius := float64(w) / 2, float64(h) / 2 if smaller, in hundredths.
svgCircleRadius(c) == IF 50 * c.h < 50 * c.w THEN 50 * c.h ELSE 50 * c.w

ShapeInit ==
  /\ dctx \in [x : 0 .. MaxOrigin, y : 0 .. MaxOrigin,
               w : 1 .. MaxEdge, h : 1 .. MaxEdge]
  /\ shapeOut = [done |-> FALSE]
  /\ imgW = 0 /\ imgH = 0 /\ img = << >> /\ paints = 0 /\ phase = "idle"
  /\ rects = << >> /\ marks = << >> /\ oldRects = << >>
  /\ orig = "idle" /\ allRects = << >> /\ merged = FALSE /\ npasses = 0
  /\ mat = << >> /\ opts = << >>
  /\ svgOut = [done |-> FALSE] /\ svgoOut = [done |-> FALSE]
  /\ pr = << >> /\ sr = << >> /\ ncmds = 0 /\ lastCmd = "idle"
  /\ svgPath = << >>
  /\ src = << >> /\ threshold = 0 /\ dst = << >> /\ kitOp = "idle"
  /\ gradient = [width |-> 0] /\ gradientDef = [done |-> FALSE]
  /\ svgoDef = [done |-> FALSE]
  /\ oo = [borderWidths |-> << >>] /\ widths = << >> /\ napplied = 0
  /\ lastOpt = [name |-> "none"] /\ nextra = 0 /\ optErr = "nil"
  /\ printed = ""
  /\ job = << >> /\ sink = << >> /\ sinkLog = << >> /\ ret = [done |-> FALSE]

\* circle.Draw: DrawCircle(cx, cy, float64(radius)); SetColor; Fill.
circleDraw ==
  /\ ~ shapeOut.done
  /\ shapeOut' = [done |-> TRUE, shape |-> "circle.Draw",
                  cmds |-> << [cmd |-> "circle",
                               cx |-> 100 * dctx.x + 50 * dctx.w,
                               cy |-> 100 * dctx.y + 50 * dctx.h,
                               r |-> 100 * circleRadius(dctx)] >>]
  /\ UNCHANGED dctx
  /\ UNCHANGED << rectVars, matrixVars, recorderVars, kitVars, gradientVars,
                  optionVars, sinkVars >>

\* svgCircle.GenerateSVGPath: <circle cx="%.2f" cy="%.2f" r="%.2f"/>.
svgCircleGenerateSVGPath ==
  /\ ~ shapeOut.done
  /\ shapeOut' = [done |-> TRUE, shape |-> "svgCircle",
                  cmds |-> << [cmd |-> "circle",
                               cx |-> 100 * dctx.x + 50 * dctx.w,
                               cy |-> 100 * dctx.y + 50 * dctx.h,
                               r |-> svgCircleRadius(dctx)] >>]
  /\ UNCHANGED dctx
  /\ UNCHANGED << rectVars, matrixVars, recorderVars, kitVars, gradientVars,
                  optionVars, sinkVars >>

ShapeNext ==
  \/ circleDraw
  \/ svgCircleGenerateSVGPath

SpecShape == ShapeInit /\ [][ShapeNext]_vars

(***************************************************************************)
(* Properties of the circle shape.                                         *)
(***************************************************************************)
MinEdge == IF dctx.h < dctx.w THEN dctx.h ELSE dctx.w

\* C19: for every cell (x, y, w, h), odd sizes included, the raster and the
\* vector circle shape both emit exactly one circle command, centred at
\* (x + w/2, y + h/2), of radius min(w, h)/2, inside the cell.
C19_CircleInCell ==
  shapeOut.done =>
    /\ Len(shapeOut.cmds) = 1
    /\ shapeOut.cmds[1].cmd = "circle"
    /\ shapeOut.cmds[1].cx = 100 * dctx.x + 50 * dctx.w
    /\ shapeOut.cmds[1].cy = 100 * dctx.y + 50 * dctx.h
    /\ shapeOut.cmds[1].r = 50 * MinEdge
    /\ shapeOut.cmds[1].cx - shapeOut.cmds[1].r >= 100 * dctx.x
    /\ shapeOut.cmds[1].cx + shapeOut.cmds[1].r <= 100 * (dctx.x + dctx.w)
    /\ shapeOut.cmds[1].cy - shapeOut.cmds[1].r >= 100 * dctx.y
    /\ shapeOut.cmds[1].cy + shapeOut.cmds[1].r <= 100 * (dctx.y + dctx.h)

(***************************************************************************)
(* The ImageOption functions.  borderWidths is the array [4]int, kept as   *)
(* a sequence of length 4; widths holds the arguments of the               *)
(* WithBorderWidth that was applied last and napplied counts them.  A nil  *)
(* pointer or interface is the empty tuple.  An ImageOption returns        *)
(* nothing, so optErr, the error its application hands back, stays nil.    *)
(***************************************************************************)
\* _defaultPadding: a width that no argument of the option takes.
defaultPadding == MaxWidth + 1

apply(arr, top, right, bottom, left) ==
  [arr EXCEPT ![1] = top, ![2] = right, ![3] = bottom, ![4] = left]

\* A slip in the case of two values: (a, b) stored as top = right = a and
\* bottom = left = b.
setBorderWidthsInOrder(o, ws) ==
  [o EXCEPT !.borderWidths =
     CASE Len(ws) = 0 ->
            apply(@, defaultPadding, defaultPadding, defaultPadding,
                  defaultPadding)
       [] Len(ws) = 1 -> apply(@, ws[1], ws[1], ws[1], ws[1])
       [] Len(ws) \in {2, 3} -> apply(@, ws[1], ws[1], ws[2], ws[2])
       [] OTHER -> apply(@, ws[1], ws[2], ws[3], ws[4])]

\* The function WithBorderWidth(widths...) returns, applied to o.
setBorderWidths(o, ws) ==
  [o EXCEPT !.borderWidths =
     CASE Len(ws) = 0 ->
            apply(@, defaultPadding, defaultPadding, defaultPadding,
                  defaultPadding)
       [] Len(ws) = 1 -> apply(@, ws[1], ws[1], ws[1], ws[1])
       [] Len(ws) \in {2, 3} -> apply(@, ws[1], ws[2], ws[1], ws[2])
       [] OTHER -> apply(@, ws[1], ws[2], ws[3], ws[4])]

WidthLists == UNION { [1 .. n -> 0 .. MaxWidth] : n \in 0 .. 4 }

Nil == << >>

\* Gradients handed to WithFgGradient: nil, one without stops, two with.
OptionGradients ==
  { Nil, [angle |-> "0", stops |-> << >>] }
    \cup { [angle |-> "90", stops |-> st] : st \in GradientStops }

\* A slip: the gradient is stored without looking at it.
setGradientUnchecked(o, g) == [o EXCEPT !.qrGradient = g]

\* The function WithFgGradient(g) returns, applied to o.
setGradient(o, g) ==
  IF g = Nil \/ Len(g.stops) = 0 THEN o ELSE [o EXCEPT !.qrGradient = g]

\* Files on disk: one that is absent, one that is no image, a PNG and a JPEG.
Files ==
  { [path |-> "absent", exists |-> FALSE, format |-> "none", w |-> 0, h |-> 0],
    [path |-> "text", exists |-> TRUE, format |-> "none", w |-> 0, h |-> 0],
    [path |-> "png", exists |-> TRUE, format |-> "png", w |-> 4, h |-> 2],
    [path |-> "jpeg", exists |-> TRUE, format |-> "jpeg", w |-> 2, h |-> 2] }

\* os.Open, then jpeg.Decode or png.Decode: the image or the failure.
openAndDecode(f, format) ==
  IF ~ f.exists THEN [err |-> "open", img |-> Nil]
  ELSE IF f.format # format THEN [err |-> "decode", img |-> Nil]
  ELSE [err |-> "nil", img |-> [w |-> f.w, h |-> f.h]]

\* imgkit.Read: the image of any format, or the failure.
imgkitRead(f) ==
  IF ~ f.exists THEN [err |-> "open", img |-> Nil]
  ELSE IF f.format = "none" THEN [err |-> "decode", img |-> Nil]
  ELSE [err |-> "nil", img |-> [w |-> f.w, h |-> f.h]]

AtLeastOne(n) == IF n < 1 THEN 1 ELSE n

\* The size the adaptive options scale the logo to: targetSize is
\* qrModules * qrWidth / logoSizeMultiplier and the shorter edge keeps the
\* proportion; int() truncates and the least size is 1.
adaptiveSize(im, logoSizeMultiplier, qrWidth, qrModules) ==
  IF im.w > im.h
  THEN [w |-> AtLeastOne((qrModules * qrWidth) \div logoSizeMultiplier),
        h |-> AtLeastOne((qrModules * qrWidth * im.h)
                           \div (logoSizeMultiplier * im.w))]
  ELSE [w |-> AtLeastOne((qrModules * qrWidth * im.w)
                           \div (logoSizeMultiplier * im.h)),
        h |-> AtLeastOne((qrModules * qrWidth) \div logoSizeMultiplier)]

OptionInit ==
  /\ oo = [borderWidths |-> << 0, 0, 0, 0 >>, qrGradient |-> Nil,
           logo |-> Nil, halftoneImg |-> Nil]
  /\ widths = << >>
  /\ napplied = 0
  /\ lastOpt = [name |-> "none"]
  /\ nextra = 0
  /\ optErr = "nil"
  /\ printed = ""
  /\ job = << >> /\ sink = << >> /\ sinkLog = << >> /\ ret = [done |-> FALSE]
  /\ imgW = 0 /\ imgH = 0 /\ img = << >> /\ paints = 0 /\ phase = "idle"
  /\ rects = << >> /\ marks = << >> /\ oldRects = << >>
  /\ orig = "idle" /\ allRects = << >> /\ merged = FALSE /\ npasses = 0
  /\ mat = << >> /\ opts = << >>
  /\ svgOut = [done |-> FALSE] /\ svgoOut = [done |-> FALSE]
  /\ pr = << >> /\ sr = << >> /\ ncmds = 0 /\ lastCmd = "idle"
  /\ svgPath = << >>
  /\ src = << >> /\ threshold = 0 /\ dst = << >> /\ kitOp = "idle"
  /\ gradient = [width |-> 0] /\ gradientDef = [done |-> FALSE]
  /\ svgoDef = [done |-> FALSE]
  /\ dctx = [w |-> 0] /\ shapeOut = [done |-> FALSE]

WithBorderWidth(ws) ==
  /\ napplied + nextra < MaxApplied
  /\ oo' = setBorderWidths(oo, ws)
  /\ widths' = ws
  /\ napplied' = napplied + 1
  /\ lastOpt' = [name |-> "WithBorderWidth"]
  /\ UNCHANGED << nextra, optErr, printed >>
  /\ UNCHANGED << rectVars, matrixVars, recorderVars, kitVars, gradientVars,
                  shapeVars, sinkVars >>

WithFgGradient(g) ==
  /\ napplied + nextra < MaxApplied
  /\ oo' = setGradient(oo, g)
  /\ lastOpt' = [name |-> "WithFgGradient", g |-> g]
  /\ nextra' = nextra + 1
  /\ UNCHANGED << widths, napplied, optErr, printed >>
  /\ UNCHANGED << rectVars, matrixVars, recorderVars, kitVars, gradientVars,
                  shapeVars, sinkVars >>

\* WithLogoImageFileJPEG and WithLogoImageFilePNG: a failure is printed and
\* the function returns.
WithLogoImageFile(f, format) ==
  /\ napplied + nextra < MaxApplied
  /\ LET got == openAndDecode(f, format)
     IN /\ oo' = IF got.err = "nil" THEN [oo EXCEPT !.logo = got.img] ELSE oo
        /\ printed' = IF got.err = "nil" THEN printed ELSE got.err
  /\ lastOpt' = [name |-> "WithLogoImageFile", f |-> f, format |-> format]
  /\ nextra' = nextra + 1
  /\ UNCHANGED << widths, napplied, optErr >>
  /\ UNCHANGED << rectVars, matrixVars, recorderVars, kitVars, gradientVars,
                  shapeVars, sinkVars >>

\* WithLogoImageAdaptiveFileJPEG and WithLogoImageAdaptiveFilePNG.
WithLogoImageAdaptiveFile(f, format, logoSizeMultiplier, qrWidth, qrModules) ==
  /\ napplied + nextra < MaxApplied
  /\ LET got == openAndDecode(f, format)
     IN /\ oo' = IF got.err = "nil"
                 THEN [oo EXCEPT !.logo =
                         adaptiveSize(got.img, logoSizeMultiplier, qrWidth,
                                      qrModules)]
                 ELSE oo
        /\ printed' = IF got.err = "nil" THEN printed ELSE got.err
  /\ lastOpt' = [name |-> "WithLogoImageAdaptiveFile", f |-> f,
                 format |-> format]
  /\ nextra' = nextra + 1
  /\ UNCHANGED << widths, napplied, optErr >>
  /\ UNCHANGED << rectVars, matrixVars, recorderVars, kitVars, gradientVars,
                  shapeVars, sinkVars >>

WithHalftone(f) ==
  /\ napplied + nextra < MaxApplied
  /\ LET got == imgkitRead(f)
     IN /\ oo' = IF got.err = "nil" THEN [oo EXCEPT !.halftoneImg = got.img]
                 ELSE oo
        /\ printed' = IF got.err = "nil" THEN printed ELSE got.err
  /\ lastOpt' = [name |-> "WithHalftone", f |-> f]
  /\ nextra' = nextra + 1
  /\ UNCHANGED << widths, napplied, optErr >>
  /\ UNCHANGED << rectVars, matrixVars, recorderVars, kitVars, gradientVars,
                  shapeVars, sinkVars >>

OptionNext ==
  \/ \E ws \in WidthLists : WithBorderWidth(ws)
  \/ \E g \in OptionGradients : WithFgGradient(g)
  \/ \E f \in Files, format \in {"jpeg", "png"} : WithLogoImageFile(f, format)
  \/ \E f \in Files, format \in {"jpeg", "png"} :
        WithLogoImageAdaptiveFile(f, format, 5, 1, 21)
  \/ \E f \in Files : WithHalftone(f)

SpecOption == OptionInit /\ [][OptionNext]_vars

(***************************************************************************)
(* Properties of WithBorderWidth.                                          *)
(***************************************************************************)
\* C20: after WithBorderWidth options have been applied, the array
\* [top, right, bottom, left] is given by the last one alone: all four are a
\* for one value a; top = bottom = a and right = left = b for two values
\* (a, b); top = a, right = b, bottom = c, left = d for four values; all four
\* are the default padding for no value.
C20_BorderShorthand ==
  napplied > 0 =>
    LET top == oo.borderWidths[1]
        right == oo.borderWidths[2]
        bottom == oo.borderWidths[3]
        left == oo.borderWidths[4]
    IN /\ Len(oo.borderWidths) = 4
       /\ Len(widths) = 0 =>
            /\ top = defaultPadding /\ right = defaultPadding
            /\ bottom = defaultPadding /\ left = defaultPadding
       /\ Len(widths) = 1 =>
            /\ top = widths[1] /\ right = widths[1]
            /\ bottom = widths[1] /\ left = widths[1]
       /\ Len(widths) = 2 =>
            /\ top = widths[1] /\ bottom = widths[1]
            /\ left = widths[2] /\ right = widths[2]
       /\ Len(widths) = 4 =>
            /\ top = widths[1] /\ right = widths[2]
            /\ bottom = widths[3] /\ left = widths[4]

\* A second option, of two different values, has been applied.
C20_Witness ==
  /\ napplied = 2
  /\ Len(widths) = 2
  /\ widths[1] # widths[2]
  /\ oo.borderWidths = << widths[1], widths[2], widths[1], widths[2] >>

(***************************************************************************)
(* Writes to the output sink.  A render is the sequence of writes it       *)
(* attempts; a write is checked when the code looks at the error the write *)
(* returned.  The sink fails the write number failAt (0: none), and every  *)
(* later write too when sticky.                                            *)
(***************************************************************************)
W(kind, checked) == [kind |-> kind, checked |-> checked]

Repeat(w, n) == [i \in 1 .. n |-> w]

Optional(cond, ws) == IF cond THEN ws ELSE << >>

\* svgEncoder.EncodeMatrix: the writes inside mat.Iterate and the error of
\* embedLogoAsPNG are dropped; the others return the error.
svgMatrixWrites(j) ==
  << W("header", TRUE) >>
    \o Optional(j.gradient, << W("gradient", TRUE), W("stop", TRUE),
                               W("gradient end", TRUE) >>)
    \o Optional(j.background, << W("background", TRUE) >>)
    \o << W("group", TRUE) >>
    \o Repeat(W("module", FALSE), j.modules)
    \o << W("group end", TRUE) >>
    \o Optional(j.logo, << W("logo", FALSE) >>)
    \o << W("footer", TRUE) >>

\* svgEncoder.EncodeWithOptions: every write but that of the logo is checked.
svgImageWrites(j) ==
  << W("header", TRUE), W("background", TRUE) >>
    \o Repeat(W("module", TRUE), j.modules)
    \o Optional(j.logo, << W("logo", FALSE) >>)
    \o << W("footer", TRUE) >>

\* SvgoEncoder.EncodeMatrix: the canvas calls return nothing.
svgoMatrixWrites(j) ==
  << W("header", FALSE) >>
    \o Optional(j.background, << W("background", FALSE) >>)
    \o Optional(j.gradient, << W("gradient", FALSE) >>)
    \o Repeat(W("module", FALSE), j.modules)
    \o Optional(j.logo, << W("logo", FALSE) >>)
    \o << W("footer", FALSE) >>

WritesOf(j) ==
  CASE j.encoder = "svgEncoder.EncodeMatrix" -> svgMatrixWrites(j)
    [] j.encoder = "svgEncoder.EncodeWithOptions" -> svgImageWrites(j)
    [] j.encoder = "SvgoEncoder.EncodeMatrix" -> svgoMatrixWrites(j)

\* Does the sink accept its write number i?
Accepts(sk, i) ==
  \/ sk.failAt = 0
  \/ i < sk.failAt
  \/ i > sk.failAt /\ ~ sk.sticky

\* Does the render return after the write w with this outcome?
stopsOnError(w, ok) == ~ ok /\ w.checked

RECURSIVE Attempt(_, _, _, _)
\* The writes from number i on: the log of the attempts and the number of
\* the write whose error is returned (0: nil).
Attempt(ws, sk, i, log) ==
  IF i > Len(ws) THEN [log |-> log, err |-> 0]
  ELSE LET ok == Accepts(sk, i)
           entry == [kind |-> ws[i].kind, ok |-> ok]
       IN IF stopsOnError(ws[i], ok)
          THEN [log |-> Append(log, entry), err |-> i]
          ELSE Attempt(ws, sk, i + 1, Append(log, entry))

Encoders ==
  { "svgEncoder.EncodeMatrix", "svgEncoder.EncodeWithOptions",
    "SvgoEncoder.EncodeMatrix" }

SinkInit ==
  /\ job \in [encoder : Encoders, gradient : BOOLEAN, background : BOOLEAN,
              logo : BOOLEAN, modules : 0 .. MaxModules]
  /\ sink \in [failAt : 0 .. MaxModules + 7, sticky : BOOLEAN]
  /\ sinkLog = << >>
  /\ ret = [done |-> FALSE]
  /\ imgW = 0 /\ imgH = 0 /\ img = << >> /\ paints = 0 /\ phase = "idle"
  /\ rects = << >> /\ marks = << >> /\ oldRects = << >>
  /\ orig = "idle" /\ allRects = << >> /\ merged = FALSE /\ npasses = 0
  /\ mat = << >> /\ opts = << >>
  /\ svgOut = [done |-> FALSE] /\ svgoOut = [done |-> FALSE]
  /\ pr = << >> /\ sr = << >> /\ ncmds = 0 /\ lastCmd = "idle"
  /\ svgPath = << >>
  /\ src = << >> /\ threshold = 0 /\ dst = << >> /\ kitOp = "idle"
  /\ gradient = [width |-> 0] /\ gradientDef = [done |-> FALSE]
  /\ svgoDef = [done |-> FALSE]
  /\ dctx = [w |-> 0] /\ shapeOut = [done |-> FALSE]
  /\ oo = [borderWidths |-> << >>] /\ widths = << >> /\ napplied = 0
  /\ lastOpt = [name |-> "none"] /\ nextra = 0 /\ optErr = "nil"
  /\ printed = ""

Render(encoder) ==
  /\ ~ ret.done
  /\ job.encoder = encoder
  /\ LET got == Attempt(WritesOf(job), sink, 1, << >>)
     IN /\ sinkLog' = got.log
        /\ ret' = [done |-> TRUE, err |-> got.err]
  /\ UNCHANGED << job, sink >>
  /\ UNCHANGED << rectVars, matrixVars, recorderVars, kitVars, gradientVars,
                  shapeVars, optionVars >>

SinkNext == \E encoder \in Encoders : Render(encoder)

SpecSink == SinkInit /\ [][SinkNext]_vars

(***************************************************************************)
(* Properties of a render over a failing sink.                             *)
(***************************************************************************)
FailedWrites == { i \in DOMAIN sinkLog : ~ sinkLog[i].ok }

\* C22: if a write to the sink fails during a vector render, the render
\* stops at that write: the failed write is the last one attempted, and its
\* error is what the render returns.
C22_StopsAtFailedWrite ==
  ret.done =>
    \A i \in FailedWrites : i = Len(sinkLog) /\ ret.err = i

(***************************************************************************)
(* The recorders behind GraphicsContext.  Numbers are in thousandths; Fmt2 *)
(* is the "%.2f" verb, which keeps hundredths, and Trunc is Go's int(), which*)
(* truncates.                                                              *)
(***************************************************************************)
Fmt2(v) == (v + 5) \div 10

Trunc(v) == v \div 1000

\* A colour string is << "#", r, g, b >>; the empty string is << >>.  A nil
\* color.Color is << >>, a colour c is << c >>.
Hex(c) == << "#", c.r, c.g, c.b >>

colorToHex(c) == IF c = << >> THEN << >> ELSE Hex(c[1])

Fmt2All(vs) == [i \in DOMAIN vs |-> Fmt2(vs[i])]

Tok(op, vs) == [op |-> op, args |-> Fmt2All(vs)]

CircleTokens(cx, cy, radius) ==
  Tok("M_A_A_Z", << cx + radius, cy, radius, radius, cx - radius, cy,
                    radius, radius, cx + radius, cy >>)

RectangleTokens(x, y, w, h) ==
  Tok("M_L_L_L_Z", << x, y, x + w, y, x + w, y + h, x, y + h >>)

LineCapName(lineCap) ==
  CASE lineCap = 0 -> "butt"
    [] lineCap = 1 -> "round"
    [] lineCap = 2 -> "square"
    [] OTHER -> "butt"

\* svgPathRecorder ---------------------------------------------------------
NewSVGPathRecorder(hasGradient) ==
  [pathElements |-> << >>, currentCommands |-> << >>,
   currentX |-> 0, currentY |-> 0,
   strokeDash |-> << >>, strokeWidth |-> 0, strokeLineCap |-> "",
   fillRule |-> "", currentColor |-> << >>, hasGradient |-> hasGradient]

generateSVGPathElement(r, pathData, operation, colorStr) ==
  LET fillAttrs ==
        (IF r.fillRule # "" THEN << << "fill-rule", r.fillRule >> >> ELSE << >>)
        \o (IF colorStr # << >> THEN << << "fill", colorStr >> >> ELSE << >>)
      strokeAttrs ==
        (IF colorStr # << >> THEN << << "stroke", colorStr >> >> ELSE << >>)
        \o (IF r.strokeWidth > 0
            THEN << << "stroke-width", Fmt2(r.strokeWidth) >> >> ELSE << >>)
        \o (IF r.strokeLineCap # ""
            THEN << << "stroke-linecap", r.strokeLineCap >> >> ELSE << >>)
        \o (IF Len(r.strokeDash) > 0
            THEN << << "stroke-dasharray", Fmt2All(r.strokeDash) >> >>
            ELSE << >>)
        \o << << "fill", "none" >> >>
  IN [d |-> pathData,
      attrs |-> IF operation = "fill" THEN fillAttrs
                ELSE IF operation = "stroke" THEN strokeAttrs
                ELSE << >>]

\* A slip that resets the dash pattern and the line width but keeps the cap.
prResetDashAndWidth(r) ==
  [r EXCEPT !.strokeDash = << >>, !.strokeWidth = 0]

prResetStroke(r) ==
  [r EXCEPT !.strokeDash = << >>, !.strokeWidth = 0, !.strokeLineCap = ""]

\* A slip that commits the element and keeps the tokens in the buffer.
prCommitKeepingTokens(r, operation, colorStr) ==
  IF Len(r.currentCommands) > 0
  THEN [r EXCEPT
          !.pathElements =
             Append(@, generateSVGPathElement(r, r.currentCommands,
                                              operation, colorStr))]
  ELSE r

prCommit(r, operation, colorStr) ==
  IF Len(r.currentCommands) > 0
  THEN [r EXCEPT
          !.pathElements =
             Append(@, generateSVGPathElement(r, r.currentCommands,
                                              operation, colorStr)),
          !.currentCommands = << >>]
  ELSE r

prFill(r) ==
  prResetStroke(prCommit(r, "fill",
     IF ~r.hasGradient THEN colorToHex(r.currentColor) ELSE << >>))

prStroke(r) ==
  prResetStroke(prCommit(r, "stroke", colorToHex(r.currentColor)))

prAppend(r, tok, x, y) ==
  [r EXCEPT !.currentCommands = Append(@, tok), !.currentX = x, !.currentY = y]

\* svgoShapeRecorder -------------------------------------------------------
NewSvgoShapeRecorder(fillColor) ==
  [canvas |-> << >>, fillColor |-> fillColor, currentPath |-> << >>,
   strokeWidth |-> 0, strokeColor |-> << >>, strokeDash |-> << >>,
   strokeLineCap |-> "", fillRule |-> "", hasStroke |-> FALSE,
   hasFill |-> FALSE]

srStrokeAttrs(r, withDash) ==
  << << "stroke", r.strokeColor >>,
     << "stroke-width", Fmt2(r.strokeWidth) >>, << "fill", "none" >> >>
  \o (IF withDash /\ Len(r.strokeDash) > 0
      THEN << << "stroke-dasharray", Fmt2All(r.strokeDash) >> >> ELSE << >>)
  \o (IF r.strokeLineCap # ""
      THEN << << "stroke-linecap", r.strokeLineCap >> >> ELSE << >>)

srEmit(r, el) == [r EXCEPT !.canvas = Append(@, el)]

srDrawCircle(r, cx, cy, radius) ==
  IF r.fillRule # ""
  THEN [r EXCEPT !.currentPath = Append(@, CircleTokens(cx, cy, radius))]
  ELSE IF r.strokeWidth > 0 /\ Len(r.strokeDash) = 0
  THEN srEmit(r, [el |-> "circle",
                  geom |-> << Trunc(cx), Trunc(cy), Trunc(radius) >>,
                  attrs |-> srStrokeAttrs(r, FALSE)])
  ELSE IF r.strokeWidth > 0 /\ Len(r.strokeDash) > 0
  THEN srEmit(r, [el |-> "path",
                  geom |-> << Tok("M_A_A", << cx + radius, cy, radius, radius,
                                             cx - radius, cy, radius, radius,
                                             cx + radius, cy >>) >>,
                  attrs |-> srStrokeAttrs(r, TRUE)])
  ELSE srEmit(r, [el |-> "circle",
                  geom |-> << Trunc(cx), Trunc(cy), Trunc(radius) >>,
                  attrs |-> << << "fill", r.fillColor >> >>])

\* A slip that looks at the dash pattern only: a rectangle drawn under a
\* fill rule becomes a native primitive.
srDrawRectangleIgnoringFillRule(r, x, y, w, h) ==
  IF r.strokeWidth > 0 /\ Len(r.strokeDash) > 0
  THEN srEmit(r, [el |-> "path",
                  geom |-> << RectangleTokens(x, y, w, h) >>,
                  attrs |-> srStrokeAttrs(r, TRUE)])
  ELSE srEmit(r, [el |-> "rect",
                  geom |-> << Trunc(x), Trunc(y), Trunc(w), Trunc(h) >>,
                  attrs |-> << << "fill", r.fillColor >> >>])

srDrawRectangle(r, x, y, w, h) ==
  IF r.fillRule # ""
  THEN [r EXCEPT !.currentPath = Append(@, RectangleTokens(x, y, w, h))]
  ELSE IF r.strokeWidth > 0 /\ Len(r.strokeDash) = 0
  THEN srEmit(r, [el |-> "rect",
                  geom |-> << Trunc(x), Trunc(y), Trunc(w), Trunc(h) >>,
                  attrs |-> srStrokeAttrs(r, FALSE)])
  ELSE IF r.strokeWidth > 0 /\ Len(r.strokeDash) > 0
  THEN srEmit(r, [el |-> "path",
                  geom |-> << RectangleTokens(x, y, w, h) >>,
                  attrs |-> srStrokeAttrs(r, TRUE)])
  ELSE srEmit(r, [el |-> "rect",
                  geom |-> << Trunc(x), Trunc(y), Trunc(w), Trunc(h) >>,
                  attrs |-> << << "fill", r.fillColor >> >>])

srFill(r) ==
  LET attrs == << << "fill", r.fillColor >> >>
               \o (IF r.fillRule # ""
                   THEN << << "fill-rule", r.fillRule >> >> ELSE << >>)
      flushed == IF Len(r.currentPath) > 0
                 THEN [srEmit(r, [el |-> "path", geom |-> r.currentPath,
                                  attrs |-> attrs])
                         EXCEPT !.currentPath = << >>]
                 ELSE r
  IN [flushed EXCEPT !.hasFill = TRUE]

srStroke(r) ==
  LET flushed == IF Len(r.currentPath) > 0
                 THEN [srEmit(r, [el |-> "path", geom |-> r.currentPath,
                                  attrs |-> srStrokeAttrs(r, TRUE)])
                         EXCEPT !.currentPath = << >>]
                 ELSE r
  IN [flushed EXCEPT !.hasStroke = TRUE]

\* Values the drawing commands are called with.
Points == { << 0, 0 >>, << 1500, 2004 >> }

Colours == { Black, [r |-> 255, g |-> 0, b |-> 0, a |-> 128] }

Dashes == { << >>, << 2000, 1000 >> }

LineWidths == { 0, 2000 }

LineCaps == { 0, 1, 2, 3 }

RecorderInit ==
  /\ \E g \in BOOLEAN : pr = NewSVGPathRecorder(g)
  /\ sr = NewSvgoShapeRecorder(Hex(Black))
  /\ ncmds = 0
  /\ lastCmd = "new"
  /\ svgPath = << >>
  /\ imgW = 0 /\ imgH = 0 /\ img = << >> /\ paints = 0 /\ phase = "idle"
  /\ rects = << >> /\ marks = << >> /\ oldRects = << >>
  /\ orig = "idle" /\ allRects = << >> /\ merged = FALSE /\ npasses = 0
  /\ mat = << >> /\ opts = << >>
  /\ svgOut = [done |-> FALSE] /\ svgoOut = [done |-> FALSE]
  /\ src = << >> /\ threshold = 0 /\ dst = << >> /\ kitOp = "idle"
  /\ gradient = [width |-> 0] /\ gradientDef = [done |-> FALSE]
  /\ svgoDef = [done |-> FALSE]
  /\ dctx = [w |-> 0] /\ shapeOut = [done |-> FALSE]
  /\ oo = [borderWidths |-> << >>] /\ widths = << >> /\ napplied = 0
  /\ lastOpt = [name |-> "none"] /\ nextra = 0 /\ optErr = "nil"
  /\ printed = ""
  /\ job = << >> /\ sink = << >> /\ sinkLog = << >> /\ ret = [done |-> FALSE]

\* The recorder is dropped once toSVGPath has returned.
Issue(name) ==
  /\ lastCmd \notin {"idle", "toSVGPath"}
  /\ ncmds < MaxCmds
  /\ ncmds' = ncmds + 1
  /\ lastCmd' = name
  /\ UNCHANGED << rectVars, matrixVars, kitVars, gradientVars,
                  shapeVars, optionVars, sinkVars >>

MoveTo(p) ==
  /\ Issue("MoveTo")
  /\ svgPath' = svgPath
  /\ pr' = prAppend(pr, Tok("M", p), p[1], p[2])
  /\ sr' = [sr EXCEPT !.currentPath = Append(@, Tok("M", p))]

LineTo(p) ==
  /\ Issue("LineTo")
  /\ svgPath' = svgPath
  /\ pr' = prAppend(pr, Tok("L", p), p[1], p[2])
  /\ sr' = [sr EXCEPT !.currentPath = Append(@, Tok("L", p))]

QuadraticTo(c, p) ==
  /\ Issue("QuadraticTo")
  /\ svgPath' = svgPath
  /\ pr' = prAppend(pr, Tok("Q", c \o p), p[1], p[2])
  /\ sr' = [sr EXCEPT !.currentPath = Append(@, Tok("Q", c \o p))]

ClosePath ==
  /\ Issue("ClosePath")
  /\ svgPath' = svgPath
  /\ pr' = [pr EXCEPT !.currentCommands = Append(@, Tok("Z", << >>))]
  /\ sr' = [sr EXCEPT !.currentPath = Append(@, Tok("Z", << >>))]

DrawCircle(c, radius) ==
  /\ Issue("DrawCircle")
  /\ svgPath' = svgPath
  /\ pr' = prAppend(pr, CircleTokens(c[1], c[2], radius), c[1] + radius, c[2])
  /\ sr' = srDrawCircle(sr, c[1], c[2], radius)

DrawRectangle(p, w, h) ==
  /\ Issue("DrawRectangle")
  /\ svgPath' = svgPath
  /\ pr' = prAppend(pr, RectangleTokens(p[1], p[2], w, h), p[1], p[2] + h)
  /\ sr' = srDrawRectangle(sr, p[1], p[2], w, h)

SetColor(c) ==
  /\ Issue("SetColor")
  /\ svgPath' = svgPath
  /\ pr' = [pr EXCEPT !.currentColor = << c >>]
  /\ sr' = [sr EXCEPT !.strokeColor = Hex(c)]

Fill ==
  /\ Issue("Fill")
  /\ svgPath' = svgPath
  /\ pr' = prFill(pr)
  /\ sr' = srFill(sr)

Stroke ==
  /\ Issue("Stroke")
  /\ svgPath' = svgPath
  /\ pr' = prStroke(pr)
  /\ sr' = srStroke(sr)

SetDash(dashes) ==
  /\ Issue("SetDash")
  /\ svgPath' = svgPath
  /\ pr' = [pr EXCEPT !.strokeDash = dashes]
  /\ sr' = [sr EXCEPT !.strokeDash = dashes]

SetLineWidth(lineWidth) ==
  /\ Issue("SetLineWidth")
  /\ svgPath' = svgPath
  /\ pr' = [pr EXCEPT !.strokeWidth = lineWidth]
  /\ sr' = [sr EXCEPT !.strokeWidth = lineWidth]

SetLineCap(lineCap) ==
  /\ Issue("SetLineCap")
  /\ svgPath' = svgPath
  /\ pr' = [pr EXCEPT !.strokeLineCap = LineCapName(lineCap)]
  /\ sr' = sr

SetLineCapSquare ==
  /\ Issue("SetLineCapSquare")
  /\ svgPath' = svgPath
  /\ pr' = [pr EXCEPT !.strokeLineCap = "square"]
  /\ sr' = [sr EXCEPT !.strokeLineCap = "square"]

SetFillRuleEvenOdd ==
  /\ Issue("SetFillRuleEvenOdd")
  /\ svgPath' = svgPath
  /\ pr' = [pr EXCEPT !.fillRule = "evenodd"]
  /\ sr' = [sr EXCEPT !.fillRule = "evenodd"]

SetFillRuleWinding ==
  /\ Issue("SetFillRuleWinding")
  /\ svgPath' = svgPath
  /\ pr' = [pr EXCEPT !.fillRule = "nonzero"]
  /\ sr' = [sr EXCEPT !.fillRule = "nonzero"]

NewSubPath ==
  /\ Issue("NewSubPath")
  /\ UNCHANGED << pr, sr, svgPath >>

\* toSVGPath: a Fill, then the path elements joined.
toSVGPath ==
  /\ Issue("toSVGPath")
  /\ pr' = prFill(pr)
  /\ svgPath' = prFill(pr).pathElements
  /\ sr' = sr

RecorderNext ==
  \/ \E p \in Points : MoveTo(p)
  \/ LineTo(<< 3000, 0 >>)
  \/ QuadraticTo(<< 3000, 3000 >>, << 0, 3000 >>)
  \/ ClosePath
  \/ DrawCircle(<< 5500, 5500 >>, 2500)
  \/ DrawRectangle(<< 1500, 0 >>, 3000, 3000)
  \/ \E c \in Colours : SetColor(c)
  \/ Fill
  \/ Stroke
  \/ \E d \in Dashes : SetDash(d)
  \/ \E lw \in LineWidths : SetLineWidth(lw)
  \/ \E k \in LineCaps : SetLineCap(k)
  \/ SetLineCapSquare
  \/ SetFillRuleEvenOdd
  \/ SetFillRuleWinding
  \/ NewSubPath
  \/ toSVGPath

SpecRecorder == RecorderInit /\ [][RecorderNext]_vars

(***************************************************************************)
(* Properties of the recorders at their commit points.                     *)
(***************************************************************************)
Committed == lastCmd \in {"Fill", "Stroke"}

AttrNames(el) == { el.attrs[k][1] : k \in 1 .. Len(el.attrs) }

\* The path element a commit would add after one more MoveTo.
NextPathElement(operation) ==
  LET r == prAppend(pr, Tok("M", << 0, 0 >>), 0, 0)
      after == IF operation = "fill" THEN prFill(r) ELSE prStroke(r)
  IN after.pathElements[Len(after.pathElements)]

\* C8: right after a Fill or a Stroke on svgPathRecorder the dash pattern
\* is empty, the line width is 0 and the line cap is unset, and a Stroke
\* committed next without new stroke settings carries no stroke-width,
\* stroke-dasharray or stroke-linecap attribute.
C8_StrokeReset ==
  Committed =>
    /\ pr.strokeDash = << >>
    /\ pr.strokeWidth = 0
    /\ pr.strokeLineCap = ""
    /\ AttrNames(NextPathElement("stroke"))
         \cap {"stroke-width", "stroke-dasharray", "stroke-linecap"} = {}

\* A Stroke that has just committed a path element carrying a stroke
\* setting made before it.
C8_Witness ==
  /\ lastCmd = "Stroke"
  /\ Len(pr.pathElements) > 0
  /\ AttrNames(pr.pathElements[Len(pr.pathElements)])
       \cap {"stroke-width", "stroke-dasharray", "stroke-linecap"} # {}

\* C9: right after a Fill or a Stroke on svgPathRecorder the fill rule is
\* back to unset, and a Fill committed next without a new fill-rule call
\* carries no fill-rule attribute.
C9_FillRuleReset ==
  Committed =>
    /\ pr.fillRule = ""
    /\ "fill-rule" \notin AttrNames(NextPathElement("fill"))

\* C10: right after a Fill or a Stroke on svgoShapeRecorder its fill rule,
\* dash pattern, line width and line cap are at their defaults.
C10_ShapeRecorderReset ==
  Committed =>
    /\ sr.fillRule = ""
    /\ sr.strokeDash = << >>
    /\ sr.strokeWidth = 0
    /\ sr.strokeLineCap = ""

AttrPairs(el) == { el.attrs[k] : k \in 1 .. Len(el.attrs) }

\* A primitive is stroked when it is written with fill "none", else filled.
KindOf(el) == IF << "fill", "none" >> \in AttrPairs(el) THEN "stroked" ELSE "filled"

\* C11: after the same commands, ending in a commit, svgPathRecorder and
\* svgoShapeRecorder have emitted the same number of primitives, and the
\* primitives at the same position agree on kind (filled or stroked).
C11_AdapterEquivalence ==
  Committed =>
    /\ Len(pr.pathElements) = Len(sr.canvas)
    /\ \A k \in 1 .. Len(pr.pathElements) :
         k <= Len(sr.canvas) =>
           KindOf(pr.pathElements[k]) = KindOf(sr.canvas[k])

IsPrefix(a, b) == Len(a) <= Len(b) /\ \A k \in 1 .. Len(a) : a[k] = b[k]

\* C25: a Fill or Stroke on svgPathRecorder with tokens in the buffer adds
\* exactly one path element, whose path data is the tokens accumulated since
\* the last commit, in call order, and empties the buffer; with an empty
\* buffer it adds nothing; no other command adds an element or drops a
\* token; and toSVGPath commits the tokens still in the buffer as one fill
\* element and returns all elements.
C25_CommitStep ==
  [][LET commit == lastCmd' \in {"Fill", "Stroke", "toSVGPath"}
         before == pr.pathElements
         after == pr'.pathElements
     IN ncmds' = ncmds + 1 =>
          /\ (commit /\ Len(pr.currentCommands) > 0) =>
                /\ Len(after) = Len(before) + 1
                /\ IsPrefix(before, after)
                /\ after[Len(after)].d = pr.currentCommands
                /\ pr'.currentCommands = << >>
          /\ (commit /\ Len(pr.currentCommands) = 0) =>
                /\ after = before
                /\ pr'.currentCommands = << >>
          /\ ~commit =>
                /\ after = before
                /\ IsPrefix(pr.currentCommands, pr'.currentCommands)
          /\ lastCmd' = "toSVGPath" =>
                /\ svgPath' = after
                /\ Len(pr.currentCommands) > 0 =>
                      KindOf(after[Len(after)]) = "filled"]_vars

\* toSVGPath has committed two tokens that were still in the buffer as one
\* fill element and returned it.
C25_Witness ==
  /\ lastCmd = "toSVGPath"
  /\ Len(svgPath) = 1
  /\ Len(svgPath[1].d) = 2
  /\ KindOf(svgPath[1]) = "filled"

\* The step is a drawRectangle or drawCircle on svgoShapeRecorder.
DrawsShape == ncmds' = ncmds + 1 /\ lastCmd' \in {"DrawRectangle", "DrawCircle"}

\* The step wrote one native rectangle or circle primitive to the canvas.
EmitsNative ==
  /\ Len(sr'.canvas) = Len(sr.canvas) + 1
  /\ sr'.canvas[Len(sr'.canvas)].el \in {"rect", "circle"}
  /\ sr'.currentPath = sr.currentPath

\* The step wrote no native primitive and used path data: it appended the
\* shape to the current path, or wrote one path element.
UsesPathData ==
  \/ /\ sr'.canvas = sr.canvas
     /\ Len(sr'.currentPath) = Len(sr.currentPath) + 1
  \/ /\ Len(sr'.canvas) = Len(sr.canvas) + 1
     /\ sr'.canvas[Len(sr'.canvas)].el = "path"
     /\ sr'.currentPath = sr.currentPath

\* C26 as stated: svgoShapeRecorder writes a native primitive for
\* drawRectangle / drawCircle exactly when no fill rule is set and no dash
\* pattern is set, and uses path data whenever a fill rule or a dash pattern
\* is set.
C26_NativeIffNoRuleNoDash ==
  [][DrawsShape =>
       IF sr.fillRule = "" /\ Len(sr.strokeDash) = 0
       THEN EmitsNative ELSE UsesPathData]_vars

\* C26 amended: svgoShapeRecorder writes a native primitive for
\* drawRectangle / drawCircle exactly when no fill rule is set and the shape
\* is not a dashed stroke (a line width above 0 together with a dash
\* pattern); otherwise it uses path data.
C26_NativeIffNoRuleNoDashedStroke ==
  [][DrawsShape =>
       IF sr.fillRule = "" /\ ~(sr.strokeWidth > 0 /\ Len(sr.strokeDash) > 0)
       THEN EmitsNative ELSE UsesPathData]_vars

\* A shape drawn with a dash pattern set and no line width: a native, filled
\* primitive.
C26_Witness ==
  /\ lastCmd \in {"DrawRectangle", "DrawCircle"}
  /\ sr.fillRule = ""
  /\ Len(sr.strokeDash) > 0
  /\ sr.strokeWidth = 0
  /\ Len(sr.canvas) > 0
  /\ sr.canvas[Len(sr.canvas)].el \in {"rect", "circle"}

(***************************************************************************)
(* Properties of the gradient and file options.                            *)
(***************************************************************************)
RejectedGradient(g) == g = Nil \/ Len(g.stops) = 0

\* C21: applying WithFgGradient with a nil gradient or with a gradient without
\* stops, after any options, leaves the whole configuration as it was, the
\* gradient field included, and hands back no error.
C21_RejectedGradientIgnored ==
  [][(lastOpt'.name = "WithFgGradient" /\ nextra' = nextra + 1
        /\ RejectedGradient(lastOpt'.g))
       => (oo' = oo /\ optErr' = "nil")]_vars

\* A gradient without stops has been applied after a gradient was set.
C21_Witness ==
  /\ lastOpt.name = "WithFgGradient"
  /\ lastOpt.g # Nil
  /\ Len(lastOpt.g.stops) = 0
  /\ oo.qrGradient # Nil

\* The file the last option named could not be opened or decoded.
Unreadable ==
  \/ /\ lastOpt.name \in {"WithLogoImageFile", "WithLogoImageAdaptiveFile"}
     /\ openAndDecode(lastOpt.f, lastOpt.format).err # "nil"
  \/ /\ lastOpt.name = "WithHalftone"
     /\ imgkitRead(lastOpt.f).err # "nil"

\* C23: when the file of a logo or halftone option cannot be opened or
\* decoded, the failure is handed back to the caller as an error when the
\* option is applied.
C23_UnreadableFileReported == Unreadable => optErr # "nil"

====
